---- MODULE Spec2Model ----
(***************************************************************************)
(* Session relay of the conversation tool: the single-use token store, the *)
(* per-user daily usage tracker on top of the key/value storage, and the   *)
(* /ws connection handler that composes them around a provider adapter.    *)
(* Time is the wall clock in whole seconds.                                *)
(*                                                                         *)
(* Spec        the relay with several connections, the adapter as a whole  *)
(* SpecTracker the usage tracker called by concurrent callers              *)
(* SpecSession one connection with the adapter's tasks, its event queue    *)
(*             and the events that reach the client                        *)
(* SpecReader  one connection with the reader task and the inbound queues  *)
(* SpecLimit   the receive loop of the SDK adapter over a long session     *)
(* SpecTools   the receive loop's handling of backend tool calls           *)
(* SpecConfig  the first client message and its translation by the adapter *)
(* SpecSenders SpecReader with fairness on the three sender tasks          *)
(* SpecAudio   the receive loop's delivery of synthesized audio            *)
(* SpecUsage   every operation of the usage tracker, one caller            *)
(* SpecAuth    /api/auth, request by request, in each environment          *)
(* SpecOAuth   the OAuth state values, callbacks on several instances      *)
(* SpecQuota   one user's sessions against the daily quota                 *)
(* SpecLive    Spec with one connection, a timer and fair handler steps    *)
(* SpecFirst   the first message of a connection and the reader after it   *)
(* SpecRaw     the raw adapter's receive loop, message by message          *)
(***************************************************************************)
EXTENDS Integers, Sequences, FiniteSets, TLC

\* ------------------------------------------------------------------ bounds
NumConns == 2
NumTokens == 2
MaxTicks == 2
SchedTick == 1
NumCallers == 2
NumSessions == 2
MaxMessages == 2
MaxFrames == 2
MaxCount == 1000
MaxQueue == 3

\* ------------------------------------------------------- program constants
TOKEN_EXPIRY_SECONDS == 30
SESSION_TIME_LIMIT == 300
DAILY_USER_LIMIT == 3600
USAGE_TTL == 25 * 60 * 60
SESSION_TTL == 2 * 60 * 60
DAY_SECONDS == 86400
MIN_START_SECONDS == 60
CLOSE_UNAUTHORIZED == 4003
CLOSE_NORMAL == 1000
MAX_MESSAGE_SIZE == 1048576

\* ----------------------------------------------------------- value spaces
Conns == 1..NumConns
Tokens == 1..NumTokens
Callers == 1..NumCallers
Sessions == 1..NumSessions
\* a query string without a token, and a token value that was never minted
NoToken == 0
BadToken == NumTokens + 1
\* the empty user id is the anonymous user
Users == {"", "u1"}
\* amounts by which the wall clock may advance in one step
TimeSteps == {5, 3400, 7200}
\* Python's None where a number is expected
None == -1

Min(a, b) == IF a < b THEN a ELSE b
Max(a, b) == IF a > b THEN a ELSE b
SetMin(S) == CHOOSE x \in S : \A y \in S : x <= y

VARIABLES
    now,               \* time.time()
    ticks,             \* number of clock advances so far
    valid_tokens,      \* main.valid_tokens: token -> {timestamp, user_id}
    minted,            \* tokens /api/auth handed out so far
    data,              \* MemoryStorage._data: key -> (value, expires_at)
    pc,                \* position of each /ws handler
    token,             \* the token query parameter of each connection
    user_id,           \* token_data["user_id"] of each connection
    effective_timeout, \* effective_timeout of each connection
    session_start,     \* session_start of each connection
    receive_task,      \* state of the reader task
    adapter,           \* state of gemini_client.start_session
    client,            \* the client side of the WebSocket
    close_code,        \* first close code the server sent (0: none yet)
    cause,             \* how wait_for(run_session) ended
    end_ret,           \* what usage_tracker.end returned to the handler
    end_calls,         \* number of usage_tracker.end calls of the handler
    tracked_since,     \* when usage tracking was started for the connection
    tpc,               \* position of each direct caller of end_session
    tsid,              \* session id a direct caller ends
    tsession,          \* the caller's local variable session
    tret,              \* what end_session returned to the caller
    started,           \* every marker start_session wrote, by session id
    incrs,             \* per session id, increments end_session made for it
    provider,          \* which adapter class serves the connection
    tool_mapping,      \* the adapter's tool_mapping (registered names)
    gen,               \* position of the start_session async generator
    conn,              \* the provider connection (async with ... as session)
    tasks,             \* the tasks start_session created
    event_queue,       \* start_session's event_queue
    cur_event,         \* the event run_session is forwarding
    client_got,        \* kinds of JSON events the client has received
    effects,           \* what the receive loop did for its last message
    sentinels,         \* number of None items the receive loop enqueued
    message_count,     \* receive_loop's message_count
    limit_warning_sent,\* receive_loop's limit_warning_sent
    warnings,          \* count and limit of each warning enqueued
    finally_runs,      \* times the handler's finally block has run
    escaped,           \* an exception left the handler
    audio_input_queue, \* audio_input_queue of the handler
    video_input_queue, \* video_input_queue of the handler
    text_input_queue,  \* text_input_queue of the handler
    frames,            \* number of frames the reader has taken
    last_message,      \* the message the reader took last
    enqueued,          \* per channel, every item the reader has put
    backend_got,       \* per channel, what the backend got from the sender
    last_calls,        \* function calls of the last tool-call message
    tool_results,      \* function responses the backend has received
    first_message,     \* the first message of the connection
    setup_config,      \* setup_config of the handler
    native_config,     \* what start_session made of setup_config
    audio_emitted,     \* audio chunks the backend has emitted, numbered
    audio_pending,     \* chunks of the current message not yet handled
    client_audio,      \* binary frames the client has received
    last_read,         \* the last direct read of the usage tracker
    last_auth,         \* the last /api/auth request and its response
    oauth_issued,      \* OAuth state values get_authorization_url stored
    oauth_cb,          \* each OAuth callback: position, state, outcome
    quota_sessions     \* the sessions of one user, by their quota effects

tokenVars == <<valid_tokens, minted>>
connVars == <<pc, token, user_id, effective_timeout,
              session_start, receive_task, adapter, client, close_code,
              cause, end_ret, end_calls, tracked_since>>
callerVars == <<tpc, tsid, tsession, tret, started, incrs>>
sessionVars == <<provider, tool_mapping, gen, conn, tasks, event_queue,
                 cur_event, client_got, effects, sentinels, message_count,
                 limit_warning_sent, warnings, finally_runs, escaped>>
readerVars == <<audio_input_queue, video_input_queue, text_input_queue, frames,
               last_message, enqueued, backend_got>>
toolVars == <<last_calls, tool_results>>
\* the variables of the specifications of single components
configVars == <<first_message, setup_config, native_config>>
audioVars == <<audio_emitted, audio_pending, client_audio>>
usageVars == <<last_read>>
authVars == <<last_auth>>
oauthVars == <<oauth_issued, oauth_cb>>
quotaVars == <<quota_sessions>>
detailVars == <<toolVars, configVars, audioVars, usageVars, authVars,
               oauthVars, quotaVars>>
vars == <<now, ticks, data, tokenVars, connVars, callerVars, sessionVars,
          readerVars, detailVars>>

\* ------------------------------------------------- storage (MemoryStorage)
\* Keys are <<prefix, session id, user id, date>>: "session:{session_id}"
\* leaves user and date empty, "usage:{user_id}:{date}" leaves the session
\* id empty.
_get_today(t) == t \div DAY_SECONDS
_get_session_key(sid) == <<"session:", sid, "", 0>>
_get_usage_key_shared(u, t) == <<"usage:", 0, "", _get_today(t)>>
_get_usage_key(u, t) == <<"usage:", 0, u, _get_today(t)>>

Expired(e, t) == e.expires_at # None /\ e.expires_at < t

storage_cleanup(d, t) ==
    [k \in {k \in DOMAIN d : ~Expired(d[k], t)} |-> d[k]]

ExpiresAt(ttl, t) == IF ttl # 0 THEN t + ttl ELSE None

storage_set(d, k, v, ttl, t) ==
    LET c == storage_cleanup(d, t)
    IN  [x \in DOMAIN c \cup {k} |->
            IF x = k THEN [value |-> v, expires_at |-> ExpiresAt(ttl, t)]
            ELSE c[x]]

\* get: the store after the call, and whether it returned a value
storage_get_data(d, k, t) == storage_cleanup(d, t)
storage_get_found(d, k, t) == k \in DOMAIN storage_cleanup(d, t)
storage_get_value(d, k, t) == storage_cleanup(d, t)[k].value

storage_delete_noop(d, k) == d
storage_delete(d, k) == [x \in DOMAIN d \ {k} |-> d[x]]

storage_incrby_overwrite(d, k, amount, ttl, t) ==
    [x \in DOMAIN d \cup {k} |->
        IF x = k THEN [value |-> amount, expires_at |-> ExpiresAt(ttl, t)]
        ELSE d[x]]
storage_incrby(d, k, amount, ttl, t) ==
    LET current == IF k \in DOMAIN d /\ ~Expired(d[k], t)
                   THEN d[k].value ELSE 0
    IN  [x \in DOMAIN d \cup {k} |->
            IF x = k THEN [value |-> current + amount,
                           expires_at |-> ExpiresAt(ttl, t)]
            ELSE d[x]]

storage_get_float(d, k, t) ==
    IF storage_get_found(d, k, t) THEN storage_get_value(d, k, t) ELSE 0

\* json.dumps / json.loads of the session record
json_dumps(v) == <<"json", v>>
json_loads(s) == s[2]

\* ---------------------------------------------------------- usage tracker
get_user_usage_today(d, u, t) == storage_get_float(d, _get_usage_key(u, t), t)

get_user_remaining_today_unclamped(d, u, t) ==
    DAILY_USER_LIMIT - get_user_usage_today(d, u, t)
get_user_remaining_today(d, u, t) ==
    Max(0, DAILY_USER_LIMIT - get_user_usage_today(d, u, t))

can_user_start_session_positive(d, u, t) ==
    IF u = "" THEN TRUE
    ELSE get_user_remaining_today(d, u, t) > 0
can_user_start_session(d, u, t) ==
    IF u = "" THEN TRUE
    ELSE get_user_remaining_today(d, u, t) >= MIN_START_SECONDS

start_session_no_ttl(d, sid, u, t) ==
    storage_set(d, _get_session_key(sid),
                json_dumps([user_id |-> u, start_time |-> t]), 0, t)
start_session(d, sid, u, t) ==
    storage_set(d, _get_session_key(sid),
                json_dumps([user_id |-> u, start_time |-> t]), SESSION_TTL, t)

\* end_session run without interruption: the store after it and its result
end_session_found(d, sid, t) == storage_get_found(d, _get_session_key(sid), t)
end_session_record(d, sid, t) ==
    json_loads(storage_get_value(d, _get_session_key(sid), t))
end_session_ret(d, sid, t) ==
    IF end_session_found(d, sid, t)
    THEN t - end_session_record(d, sid, t).start_time
    ELSE None
end_session_data(d, sid, t) ==
    IF end_session_found(d, sid, t)
    THEN LET s == end_session_record(d, sid, t)
             d1 == storage_delete(storage_get_data(d, _get_session_key(sid), t),
                                  _get_session_key(sid))
         IN  storage_incrby(d1, _get_usage_key(s.user_id, t),
                            t - s.start_time, USAGE_TTL, t)
    ELSE storage_get_data(d, _get_session_key(sid), t)

\* ------------------------------------------------------------ token store
cleanup_tokens_keep_all(vt, t) == vt
cleanup_tokens(vt, t) ==
    [k \in {k \in DOMAIN vt : ~(t - vt[k].timestamp > TOKEN_EXPIRY_SECONDS)}
        |-> vt[k]]

add_token(vt, tok, u, t) ==
    [k \in DOMAIN vt \cup {tok} |->
        IF k = tok THEN [timestamp |-> t, user_id |-> u] ELSE vt[k]]

\* consume_token: what it returns (NoTokenData for None) and the store after
NoTokenData == [timestamp |-> None, user_id |-> ""]
consume_token_any(vt, tok) ==
    IF tok \in DOMAIN vt THEN vt[tok] ELSE [timestamp |-> 0, user_id |-> "u1"]
consume_token_default(vt, tok) ==
    IF tok \in DOMAIN vt THEN vt[tok] ELSE [timestamp |-> 0, user_id |-> ""]
consume_token(vt, tok) == IF tok \in DOMAIN vt THEN vt[tok] ELSE NoTokenData
consume_token_store_keep(vt, tok) == vt
consume_token_store(vt, tok) == [k \in DOMAIN vt \ {tok} |-> vt[k]]

\* ------------------------------------------------------------------- Init
EmptyMap == [k \in {} |-> 0]

\* no message taken yet
NoMessage == [kind |-> "none", class |-> "none", chars |-> 0, bytes |-> 0]

\* the tasks start_session creates; none exists before it has connected
TaskNames == {"send_audio", "send_video", "send_text", "receive_loop",
              "keepalive"}
NoTasks == [t \in TaskNames |-> "none"]

\* the three inbound channels, with nothing put or sent on them yet
Channels == {"audio", "video", "text"}
NoItems == [ch \in Channels |-> <<>>]

\* setup_config = None, and a translation that has not been made
NoFields == [f \in {} |-> "object"]
NoConfig == [kind |-> "none", fields |-> NoFields]
NotTranslated == [raised |-> FALSE, keys |-> {"not_translated"}]
\* no read of the usage tracker yet
NoRead == [op |-> "none"]
\* the sessions one user may hold at a time, none of them open yet
NumQuotaSessions == 3
QuotaSessions == 1..NumQuotaSessions
NoSession == [pc |-> "none", session_start |-> None,
              effective_timeout |-> None]
\* an OAuth callback that has not arrived yet
NoCallback == [pc |-> "idle", state |-> 0, result |-> "none"]
\* no /api/auth request yet
NoAuth == [status |-> 0]
NoFrame == [kind |-> "none", setup |-> NoConfig]

Init ==
    /\ now = 0
    /\ ticks = 0
    /\ valid_tokens = EmptyMap
    /\ minted = {}
    /\ data = EmptyMap
    /\ pc = [c \in Conns |-> "idle"]
    /\ token = [c \in Conns |-> NoToken]
    /\ user_id = [c \in Conns |-> ""]
    /\ effective_timeout = [c \in Conns |-> None]
    /\ session_start = [c \in Conns |-> None]
    /\ receive_task = [c \in Conns |-> "none"]
    /\ adapter = [c \in Conns |-> "none"]
    /\ client = [c \in Conns |-> "none"]
    /\ close_code = [c \in Conns |-> 0]
    /\ cause = [c \in Conns |-> "none"]
    /\ end_ret = [c \in Conns |-> None]
    /\ end_calls = [c \in Conns |-> 0]
    /\ tracked_since = [c \in Conns |-> None]
    /\ tpc = [p \in Callers |-> "idle"]
    /\ tsid = [p \in Callers |-> 0]
    /\ tsession = [p \in Callers |-> [user_id |-> "", start_time |-> None]]
    /\ tret = [p \in Callers |-> None]
    /\ started = EmptyMap
    /\ incrs = [sid \in Sessions |-> 0]
    /\ provider = [c \in Conns |-> "none"]
    /\ tool_mapping = [c \in Conns |-> {}]
    /\ gen = [c \in Conns |-> "none"]
    /\ conn = [c \in Conns |-> "none"]
    /\ tasks = [c \in Conns |-> NoTasks]
    /\ event_queue = [c \in Conns |-> <<>>]
    /\ cur_event = [c \in Conns |-> "none"]
    /\ client_got = [c \in Conns |-> {}]
    /\ effects = [c \in Conns |-> <<>>]
    /\ sentinels = [c \in Conns |-> 0]
    /\ message_count = [c \in Conns |-> 0]
    /\ limit_warning_sent = [c \in Conns |-> FALSE]
    /\ warnings = [c \in Conns |-> <<>>]
    /\ finally_runs = [c \in Conns |-> 0]
    /\ escaped = [c \in Conns |-> FALSE]
    /\ audio_input_queue = [c \in Conns |-> <<>>]
    /\ video_input_queue = [c \in Conns |-> <<>>]
    /\ text_input_queue = [c \in Conns |-> <<>>]
    /\ frames = [c \in Conns |-> 0]
    /\ last_message = [c \in Conns |-> NoMessage]
    /\ enqueued = [c \in Conns |-> NoItems]
    /\ backend_got = [c \in Conns |-> NoItems]
    /\ last_calls = [c \in Conns |-> <<>>]
    /\ tool_results = [c \in Conns |-> <<>>]
    /\ first_message = [c \in Conns |-> NoFrame]
    /\ setup_config = [c \in Conns |-> NoConfig]
    /\ native_config = [c \in Conns |-> NotTranslated]
    /\ audio_emitted = [c \in Conns |-> <<>>]
    /\ audio_pending = [c \in Conns |-> <<>>]
    /\ client_audio = [c \in Conns |-> <<>>]
    /\ last_read = NoRead
    /\ last_auth = NoAuth
    /\ oauth_issued = {}
    /\ oauth_cb = [p \in Callers |-> NoCallback]
    /\ quota_sessions = [s \in QuotaSessions |-> NoSession]

\* ------------------------------------------------------------- wall clock
\* when the timer of wait_for(run_session(), timeout=effective_timeout) is due
wait_for_deadline_limit(c) == session_start[c] + SESSION_TIME_LIMIT
wait_for_deadline(c) == session_start[c] + effective_timeout[c]

\* The clock advances by one of TimeSteps, but never past the deadline of a
\* running wait_for by more than one scheduling tick: the timer fires first.
TickLimits ==
    {IF now < wait_for_deadline(c) THEN wait_for_deadline(c)
     ELSE wait_for_deadline(c) + SchedTick :
        c \in {x \in Conns : pc[x] = "active"}}

Tick(d) ==
    /\ ticks < MaxTicks
    /\ LET target == SetMin(TickLimits \cup {now + d})
       IN  /\ target > now
           /\ now' = target
    /\ ticks' = ticks + 1
    /\ UNCHANGED <<data, tokenVars, connVars, callerVars>>

\* -------------------------------------------------------------- /api/auth
\* u is the user the request authenticated as ("" when it used the
\* password / reCAPTCHA path).
authenticate(u) ==
    /\ Cardinality(minted) < NumTokens
    /\ data' = IF u # ""
               THEN storage_get_data(data, _get_usage_key(u, now), now)
               ELSE data
    /\ IF can_user_start_session(data, u, now)
       THEN LET session_token == Cardinality(minted) + 1
            IN  /\ valid_tokens' = add_token(cleanup_tokens(valid_tokens, now),
                                             session_token, u, now)
                /\ minted' = minted \cup {session_token}
       ELSE UNCHANGED tokenVars
    /\ UNCHANGED <<now, ticks, connVars, callerVars>>

\* -------------------------------------------------------------------- /ws
\* accept, consume the token, start usage tracking
websocket_connect(c, tok) ==
    /\ pc[c] = "idle"
    \* connections are numbered in the order in which they are accepted
    /\ \A c2 \in Conns : c2 < c => pc[c2] # "idle"
    /\ tok \in minted \cup {NoToken, BadToken}
    /\ token' = [token EXCEPT ![c] = tok]
    /\ IF tok # NoToken /\ consume_token(valid_tokens, tok) # NoTokenData
       THEN LET uid == consume_token(valid_tokens, tok).user_id
            IN  /\ valid_tokens' = consume_token_store(valid_tokens, tok)
                /\ user_id' = [user_id EXCEPT ![c] = uid]
                /\ data' = IF uid # "" THEN start_session(data, c, uid, now)
                           ELSE data
                /\ pc' = [pc EXCEPT ![c] = "awaiting_setup"]
                /\ client' = [client EXCEPT ![c] = "connected"]
                /\ tracked_since' = [tracked_since EXCEPT ![c] =
                        IF uid # "" THEN now ELSE None]
                /\ UNCHANGED close_code
       ELSE /\ close_code' = [close_code EXCEPT ![c] = CLOSE_UNAUTHORIZED]
            /\ pc' = [pc EXCEPT ![c] = "rejected"]
            /\ UNCHANGED <<valid_tokens, user_id, data, client, tracked_since>>
    /\ UNCHANGED <<now, ticks, minted, effective_timeout,
                   session_start, receive_task, adapter, cause, end_ret,
                   end_calls, callerVars>>

\* effective_timeout as computed before wait_for
compute_effective_timeout_nolimit(d, uid, t) == SESSION_TIME_LIMIT
compute_effective_timeout(d, uid, t) ==
    IF uid # ""
    THEN Min(SESSION_TIME_LIMIT, get_user_remaining_today(d, uid, t))
    ELSE SESSION_TIME_LIMIT

\* the first inbound message, then everything up to entering wait_for
SetupMessages == {"setup", "no_setup", "malformed", "disconnect"}

websocket_setup(c, msg) ==
    /\ pc[c] = "awaiting_setup"
    /\ client' = [client EXCEPT ![c] =
            IF msg = "disconnect" THEN "left_before_setup" ELSE @]
    /\ receive_task' = [receive_task EXCEPT ![c] = "running"]
    /\ adapter' = [adapter EXCEPT ![c] = "running"]
    /\ effective_timeout' = [effective_timeout EXCEPT ![c] =
            compute_effective_timeout(data, user_id[c], now)]
    /\ data' = IF user_id[c] # ""
               THEN storage_get_data(data, _get_usage_key(user_id[c], now), now)
               ELSE data
    /\ session_start' = [session_start EXCEPT ![c] = now]
    /\ pc' = [pc EXCEPT ![c] = "active"]
    /\ UNCHANGED <<now, ticks, tokenVars, token, user_id, close_code, cause,
                   end_ret, end_calls, tracked_since, callerVars>>

\* the client side is gone: it left instead of sending the first message,
\* or it disconnected later
ClientGone(c) == client[c] \in {"left_before_setup", "disconnected"}

\* the client goes away while the handler is past the setup message
client_disconnect(c) ==
    /\ pc[c] \in {"active", "timeout_close"}
    /\ client[c] = "connected"
    /\ client' = [client EXCEPT ![c] = "disconnected"]
    /\ UNCHANGED <<now, ticks, data, tokenVars, pc, token, user_id,
                   effective_timeout, session_start,
                   receive_task, adapter, close_code, cause, end_ret,
                   end_calls, tracked_since, callerVars>>

\* receive_from_client sees the disconnect, logs it and returns
receive_from_client_disconnect(c) ==
    /\ receive_task[c] = "running"
    /\ ClientGone(c)
    /\ receive_task' = [receive_task EXCEPT ![c] = "ended"]
    /\ UNCHANGED <<now, ticks, data, tokenVars, pc, token, user_id,
                   effective_timeout, session_start, adapter,
                   client, close_code, cause, end_ret, end_calls, tracked_since, callerVars>>

\* the finally block up to its await: cancel the reader, end usage tracking
finally_block(c, why, adapter_state) ==
    /\ cause' = [cause EXCEPT ![c] = why]
    /\ adapter' = [adapter EXCEPT ![c] = adapter_state]
    /\ receive_task' = [receive_task EXCEPT ![c] =
            IF @ = "running" THEN "cancelled" ELSE @]
    /\ IF user_id[c] # ""
       THEN /\ data' = end_session_data(data, c, now)
            /\ end_ret' = [end_ret EXCEPT ![c] = end_session_ret(data, c, now)]
            /\ end_calls' = [end_calls EXCEPT ![c] = @ + 1]
       ELSE UNCHANGED <<data, end_ret, end_calls>>
    /\ pc' = [pc EXCEPT ![c] = "finally_close"]

\* a provider event or audio chunk cannot be written to a client that is
\* gone: the send raises and wait_for re-raises it
run_session_send_fails(c) ==
    /\ pc[c] = "active"
    /\ ClientGone(c)
    /\ finally_block(c, "error", "cancelled")
    /\ UNCHANGED <<now, ticks, tokenVars, token, user_id, effective_timeout, session_start, client, close_code,
                   tracked_since, callerVars>>

\* the adapter's event stream ends with its sentinel
run_session_stream_end(c) ==
    /\ pc[c] = "active"
    /\ finally_block(c, "stream_end", "ended")
    /\ UNCHANGED <<now, ticks, tokenVars, token, user_id, effective_timeout, session_start, client, close_code,
                   tracked_since, callerVars>>

\* start_session raises (the backend connection cannot be established)
run_session_error(c) ==
    /\ pc[c] = "active"
    /\ finally_block(c, "error", "failed")
    /\ UNCHANGED <<now, ticks, tokenVars, token, user_id, effective_timeout, session_start, client, close_code,
                   tracked_since, callerVars>>

\* wait_for's timer expires: run_session is cancelled, TimeoutError raised
wait_for_timeout(c) ==
    /\ pc[c] = "active"
    /\ now >= wait_for_deadline(c)
    /\ adapter' = [adapter EXCEPT ![c] = "cancelled"]
    /\ cause' = [cause EXCEPT ![c] = "timeout"]
    /\ pc' = [pc EXCEPT ![c] = "timeout_close"]
    /\ UNCHANGED <<now, ticks, data, tokenVars, token, user_id, effective_timeout, session_start, receive_task, client,
                   close_code, end_ret, end_calls, tracked_since,
                   callerVars>>

\* except TimeoutError: close(code=1000), then the finally block
timeout_close_as_error(c) ==
    /\ pc[c] = "timeout_close"
    /\ UNCHANGED close_code
    /\ finally_block(c, "timeout", "cancelled")
    /\ UNCHANGED <<now, ticks, tokenVars, token, user_id, effective_timeout, session_start, client, tracked_since, callerVars>>
timeout_close(c) ==
    /\ pc[c] = "timeout_close"
    /\ close_code' = [close_code EXCEPT ![c] =
            IF client[c] = "connected" THEN CLOSE_NORMAL ELSE @]
    /\ finally_block(c, "timeout", "cancelled")
    /\ UNCHANGED <<now, ticks, tokenVars, token, user_id, effective_timeout, session_start, client, tracked_since, callerVars>>

\* the closing websocket.close() of the finally block (default code 1000;
\* it raises on an already closed socket, which is swallowed)
finally_close(c) ==
    /\ pc[c] = "finally_close"
    /\ close_code' = [close_code EXCEPT ![c] =
            IF @ = 0 /\ client[c] = "connected" THEN CLOSE_NORMAL ELSE @]
    /\ pc' = [pc EXCEPT ![c] = "closed"]
    \* the handler returns: its locals, its tasks and the socket are gone
    /\ effective_timeout' = [effective_timeout EXCEPT ![c] = None]
    /\ session_start' = [session_start EXCEPT ![c] = None]
    /\ tracked_since' = [tracked_since EXCEPT ![c] = None]
    /\ end_ret' = [end_ret EXCEPT ![c] = None]
    /\ receive_task' = [receive_task EXCEPT ![c] = "none"]
    /\ adapter' = [adapter EXCEPT ![c] = "none"]
    /\ cause' = [cause EXCEPT ![c] = "none"]
    /\ client' = [client EXCEPT ![c] = "none"]
    /\ UNCHANGED <<now, ticks, data, tokenVars, token, user_id, end_calls,
                   callerVars>>

Next ==
    \/ \E d \in TimeSteps : Tick(d)
            /\ UNCHANGED <<sessionVars, readerVars, detailVars>>
    \/ \E u \in Users : authenticate(u)
            /\ UNCHANGED <<sessionVars, readerVars, detailVars>>
    \/ \E c \in Conns : \E tok \in Tokens \cup {NoToken, BadToken} :
            websocket_connect(c, tok)
            /\ UNCHANGED <<sessionVars, readerVars, detailVars>>
    \/ \E c \in Conns : \E msg \in SetupMessages : websocket_setup(c, msg)
            /\ UNCHANGED <<sessionVars, readerVars, detailVars>>
    \/ \E c \in Conns : client_disconnect(c)
            /\ UNCHANGED <<sessionVars, readerVars, detailVars>>
    \/ \E c \in Conns : receive_from_client_disconnect(c)
            /\ UNCHANGED <<sessionVars, readerVars, detailVars>>
    \/ \E c \in Conns : run_session_send_fails(c)
            /\ UNCHANGED <<sessionVars, readerVars, detailVars>>
    \/ \E c \in Conns : run_session_stream_end(c)
            /\ UNCHANGED <<sessionVars, readerVars, detailVars>>
    \/ \E c \in Conns : run_session_error(c)
            /\ UNCHANGED <<sessionVars, readerVars, detailVars>>
    \/ \E c \in Conns : wait_for_timeout(c)
            /\ UNCHANGED <<sessionVars, readerVars, detailVars>>
    \/ \E c \in Conns : timeout_close(c)
            /\ UNCHANGED <<sessionVars, readerVars, detailVars>>
    \/ \E c \in Conns : finally_close(c)
            /\ UNCHANGED <<sessionVars, readerVars, detailVars>>

Spec == Init /\ [][Next]_vars

\* ------------------------------------------ the usage tracker called directly
\* start_session and end_session as called by several threads or relay
\* instances that share one store; every storage call is one step.
TrackedUsers == {"u1", "u2"}

tracker_start(sid, u) ==
    /\ sid \notin DOMAIN started
    /\ started' = [x \in DOMAIN started \cup {sid} |->
                       IF x = sid THEN [user_id |-> u, start_time |-> now]
                       ELSE started[x]]
    /\ data' = start_session(data, sid, u, now)
    /\ UNCHANGED <<now, ticks, tokenVars, connVars, tpc, tsid, tsession, tret,
                   incrs>>

\* session = storage.get_json(session_key); if not session: return None
end_session_get(p, sid) ==
    /\ tpc[p] = "idle"
    /\ tsid' = [tsid EXCEPT ![p] = sid]
    /\ data' = storage_get_data(data, _get_session_key(sid), now)
    /\ IF storage_get_found(data, _get_session_key(sid), now)
       THEN /\ tsession' = [tsession EXCEPT ![p] =
                    json_loads(storage_get_value(data, _get_session_key(sid), now))]
            /\ tpc' = [tpc EXCEPT ![p] = "got"]
       ELSE /\ tpc' = [tpc EXCEPT ![p] = "done"]
            /\ UNCHANGED tsession
    /\ UNCHANGED <<now, ticks, tokenVars, connVars, tret, started, incrs>>

\* storage.delete(session_key)
end_session_delete(p) ==
    /\ tpc[p] = "got"
    /\ data' = storage_delete(data, _get_session_key(tsid[p]))
    /\ tpc' = [tpc EXCEPT ![p] = "deleted"]
    /\ UNCHANGED <<now, ticks, tokenVars, connVars, tsid, tsession, tret,
                   started, incrs>>

\* duration = time.time() - start_time; storage.incrby(...); return duration
end_session_incrby(p) ==
    /\ tpc[p] = "deleted"
    /\ LET duration == now - tsession[p].start_time
       IN  /\ data' = storage_incrby(data,
                          _get_usage_key(tsession[p].user_id, now),
                          duration, USAGE_TTL, now)
           /\ tret' = [tret EXCEPT ![p] = duration]
    /\ incrs' = [incrs EXCEPT ![tsid[p]] = @ + 1]
    /\ tpc' = [tpc EXCEPT ![p] = "done"]
    /\ UNCHANGED <<now, ticks, tokenVars, connVars, tsid, tsession, started>>

TrackerNext ==
    \/ \E d \in TimeSteps : Tick(d)
            /\ UNCHANGED <<sessionVars, readerVars, detailVars>>
    \/ \E sid \in Sessions : \E u \in TrackedUsers : tracker_start(sid, u)
            /\ UNCHANGED <<sessionVars, readerVars, detailVars>>
    \/ \E p \in Callers : \E sid \in Sessions : end_session_get(p, sid)
            /\ UNCHANGED <<sessionVars, readerVars, detailVars>>
    \/ \E p \in Callers : end_session_delete(p)
            /\ UNCHANGED <<sessionVars, readerVars, detailVars>>
    \/ \E p \in Callers : end_session_incrby(p)
            /\ UNCHANGED <<sessionVars, readerVars, detailVars>>

SpecTracker == Init /\ [][TrackerNext]_vars

\* ------------------------------------------------- the provider adapters
\* GeminiLive (the SDK adapter) and QwenOmniLive (the raw WebSocket adapter)
Providers == {"gemini", "qwen"}
\* names a backend tool call can carry
ToolNames == {"get_time"}
\* the None that ends the event stream
Sentinel == "None"
\* when the receive loop warns about the backend's message limit
MESSAGE_LIMIT_WARNING == 900
MESSAGE_LIMIT == 1000

\* kinds of backend message
MessageKinds == {"audio", "transcription", "turn_complete", "interrupted",
                 "tool_call", "other"}

\* asyncio.create_task for every loop of the adapter: Qwen has no keepalive
create_tasks(p) ==
    [t \in TaskNames |->
        IF t = "keepalive" /\ p = "qwen" THEN "none" ELSE "running"]

\* Task.cancel() on every task of the adapter
cancel_tasks(ts) ==
    [t \in TaskNames |-> IF ts[t] = "running" THEN "cancelled" ELSE ts[t]]

Put(ev) == <<"put", ev>>
Callback == <<"callback", "audio_interrupt_callback">>
Invoke(name) == <<"invoke", name>>
ToolResponse(name) == <<"send_tool_response", name>>
AudioOut == <<"audio_output_callback", "bytes">>

\* the one-shot warning at the head of the SDK adapter's receive loop
limit_warning_repeat(p, count, sent) ==
    p = "gemini" /\ count >= MESSAGE_LIMIT_WARNING
limit_warning(p, count, sent) ==
    p = "gemini" /\ count >= MESSAGE_LIMIT_WARNING /\ ~sent

\* what the SDK adapter's receive loop does with one backend message, in
\* program order
gemini_interrupted ==
    <<Put("serverContent.interrupted"), Callback, Put("interrupted")>>

gemini_tool_call_forward_pending(tm, name) ==
    IF name \in tm
    THEN <<Put("toolCall"), Invoke(name), Put("tool_call"), ToolResponse(name)>>
    ELSE <<Put("toolCall")>>
gemini_tool_call(tm, name) ==
    IF name \in tm
    THEN <<Invoke(name), Put("tool_call"), ToolResponse(name)>>
    ELSE <<Put("toolCall")>>

gemini_message(tm, m) ==
    CASE m = "audio" -> <<AudioOut>>
      [] m = "transcription" -> <<Put("transcription")>>
      [] m = "turn_complete" -> <<Put("turnComplete")>>
      [] m = "interrupted" -> gemini_interrupted
      [] m = "tool_call" -> gemini_tool_call(tm, "get_time")
      [] OTHER -> <<Put("sessionResumptionUpdate")>>

\* the same for the raw adapter: it knows no tool call, and session.created
\* and session.updated are only logged
qwen_interrupted == <<Callback, Put("serverContent.interrupted")>>

qwen_message(m) ==
    CASE m = "audio" -> <<AudioOut>>
      [] m = "transcription" -> <<Put("transcription")>>
      [] m = "turn_complete" -> <<Put("turnComplete")>>
      [] m = "interrupted" -> qwen_interrupted
      [] OTHER -> <<>>

receive_loop_effects(p, tm, m, count, sent) ==
    (IF limit_warning(p, count, sent)
     THEN <<Put("messageLimitWarning")>> ELSE <<>>)
    \o (IF p = "gemini" THEN gemini_message(tm, m) ELSE qwen_message(m))

\* the events a sequence of effects puts on the event queue, in order
RECURSIVE Puts(_)
Puts(es) ==
    IF es = <<>> THEN <<>>
    ELSE (IF Head(es)[1] = "put" THEN <<Head(es)[2]>> ELSE <<>>)
         \o Puts(Tail(es))

\* except Exception: put the error event; finally: put None
receive_loop_except_no_sentinel == <<Put("error")>>
receive_loop_except == <<Put("error"), Put(Sentinel)>>
\* finally alone: cancellation, or ConnectionClosed in the raw adapter
receive_loop_finally == <<Put(Sentinel)>>

\* ------------------------------------------- one session with its adapter
\* Which adapter class the handler instantiates is configuration: main.py
\* names GeminiLive, and QwenOmniLive implements the same interface.
baseVars == <<now, ticks, data, tokenVars, connVars, callerVars>>

\* the first message, the queues, the adapter object, the reader task and
\* the start of wait_for(run_session())
session_setup(c, msg, p, tm) ==
    /\ websocket_setup(c, msg)
    /\ provider' = [provider EXCEPT ![c] = p]
    /\ tool_mapping' = [tool_mapping EXCEPT ![c] = tm]
    /\ gen' = [gen EXCEPT ![c] = "connecting"]
    /\ UNCHANGED <<conn, tasks, event_queue, cur_event, client_got, effects,
                   sentinels, message_count, limit_warning_sent, warnings,
                   finally_runs, escaped, readerVars>>

\* async with connect(...) succeeds and the tasks are created
start_session_connect(c) ==
    /\ pc[c] = "active"
    /\ gen[c] = "connecting"
    /\ conn' = [conn EXCEPT ![c] = "open"]
    /\ tasks' = [tasks EXCEPT ![c] = create_tasks(provider[c])]
    /\ gen' = [gen EXCEPT ![c] = "get"]
    /\ UNCHANGED <<baseVars, provider, tool_mapping, event_queue, cur_event,
                   client_got, effects, sentinels, message_count,
                   limit_warning_sent, warnings, finally_runs, escaped,
                   readerVars>>

\* the number of None items among the events a step enqueues
RECURSIVE CountSentinels(_)
CountSentinels(q) ==
    IF q = <<>> THEN 0
    ELSE (IF Head(q) = Sentinel THEN 1 ELSE 0) + CountSentinels(Tail(q))

\* the generator leaves its try block: the finally clause cancels every
\* task, a receive loop that is cancelled runs its own finally clause, and
\* the async with block releases the connection; q is the queue before that
generator_exit(c, q) ==
    LET es == IF tasks[c]["receive_loop"] = "running"
              THEN receive_loop_finally ELSE <<>>
    IN  /\ tasks' = [tasks EXCEPT ![c] = cancel_tasks(@)]
        /\ event_queue' = [event_queue EXCEPT ![c] = q \o Puts(es)]
        /\ sentinels' = [sentinels EXCEPT ![c] = @ + CountSentinels(Puts(es))]
        /\ effects' = [effects EXCEPT ![c] = IF es = <<>> THEN @ ELSE es]
        /\ conn' = [conn EXCEPT ![c] = IF @ = "open" THEN "released" ELSE @]
        /\ gen' = [gen EXCEPT ![c] = "closed"]

\* async with connect(...) raises: nothing was created, the exception goes
\* through run_session and wait_for to the handler's except Exception
start_session_connect_fails(c) ==
    /\ gen[c] = "connecting"
    /\ run_session_error(c)
    /\ gen' = [gen EXCEPT ![c] = "closed"]
    /\ finally_runs' = [finally_runs EXCEPT ![c] = @ + 1]
    /\ UNCHANGED <<provider, tool_mapping, conn, tasks, event_queue,
                   cur_event, client_got, effects, sentinels, message_count,
                   limit_warning_sent, warnings, escaped, readerVars>>

\* the receive loop takes one backend message; sending audio to a client
\* that is gone raises inside the loop
receive_loop_message(c, m, bound) ==
    /\ tasks[c]["receive_loop"] = "running"
    /\ conn[c] = "open"
    /\ message_count[c] < bound
    /\ Len(event_queue[c]) < MaxQueue
    /\ LET count == message_count[c] + 1
           warn == limit_warning(provider[c], count, limit_warning_sent[c])
           raised == m = "audio" /\ client[c] # "connected"
           es == receive_loop_effects(provider[c], tool_mapping[c], m, count,
                                      limit_warning_sent[c])
                 \o (IF raised THEN receive_loop_except ELSE <<>>)
       IN  /\ message_count' = [message_count EXCEPT ![c] = count]
           /\ limit_warning_sent' = [limit_warning_sent EXCEPT ![c] = @ \/ warn]
           /\ warnings' = [warnings EXCEPT ![c] =
                    IF warn THEN Append(@, <<count, MESSAGE_LIMIT>>) ELSE @]
           /\ effects' = [effects EXCEPT ![c] = es]
           /\ event_queue' = [event_queue EXCEPT ![c] = @ \o Puts(es)]
           /\ sentinels' = [sentinels EXCEPT ![c] = @ + CountSentinels(Puts(es))]
           /\ tasks' = [tasks EXCEPT ![c]["receive_loop"] =
                    IF raised THEN "ended" ELSE @]
    /\ UNCHANGED <<baseVars, provider, tool_mapping, gen, conn, cur_event,
                   client_got, finally_runs, escaped, readerVars>>

\* the backend connection fails under the receive loop: how is "closed"
\* (websockets.ConnectionClosed in the raw adapter) or "exception"
BackendFailures == {"closed", "exception"}

receive_loop_fails(c, how) ==
    /\ tasks[c]["receive_loop"] = "running"
    /\ conn[c] = "open"
    /\ LET es == IF provider[c] = "qwen" /\ how = "closed"
                 THEN receive_loop_finally ELSE receive_loop_except
       IN  /\ effects' = [effects EXCEPT ![c] = es]
           /\ event_queue' = [event_queue EXCEPT ![c] = @ \o Puts(es)]
           /\ sentinels' = [sentinels EXCEPT ![c] = @ + CountSentinels(Puts(es))]
    /\ conn' = [conn EXCEPT ![c] = "lost"]
    /\ tasks' = [tasks EXCEPT ![c]["receive_loop"] = "ended"]
    /\ UNCHANGED <<baseVars, provider, tool_mapping, gen, cur_event,
                   client_got, message_count, limit_warning_sent, warnings,
                   finally_runs, escaped, readerVars>>

\* the session's variables as they were before the handler ran
session_reset(c) ==
    /\ provider' = [provider EXCEPT ![c] = "none"]
    /\ tool_mapping' = [tool_mapping EXCEPT ![c] = {}]
    /\ gen' = [gen EXCEPT ![c] = "none"]
    /\ conn' = [conn EXCEPT ![c] = "none"]
    /\ tasks' = [tasks EXCEPT ![c] = NoTasks]
    /\ event_queue' = [event_queue EXCEPT ![c] = <<>>]
    /\ cur_event' = [cur_event EXCEPT ![c] = "none"]
    /\ client_got' = [client_got EXCEPT ![c] = {}]
    /\ effects' = [effects EXCEPT ![c] = <<>>]
    /\ sentinels' = [sentinels EXCEPT ![c] = 0]
    /\ message_count' = [message_count EXCEPT ![c] = 0]
    /\ limit_warning_sent' = [limit_warning_sent EXCEPT ![c] = FALSE]
    /\ warnings' = [warnings EXCEPT ![c] = <<>>]

\* event = await event_queue.get(): None ends the generator and with it
\* run_session; any other event is yielded to run_session
consumer_get(c) ==
    /\ pc[c] = "active"
    /\ gen[c] = "get"
    /\ event_queue[c] # <<>>
    /\ IF Head(event_queue[c]) = Sentinel
       THEN /\ generator_exit(c, Tail(event_queue[c]))
            /\ run_session_stream_end(c)
            /\ finally_runs' = [finally_runs EXCEPT ![c] = @ + 1]
            /\ UNCHANGED cur_event
       ELSE /\ gen' = [gen EXCEPT ![c] = "yielded"]
            /\ cur_event' = [cur_event EXCEPT ![c] = Head(event_queue[c])]
            /\ event_queue' = [event_queue EXCEPT ![c] = Tail(@)]
            /\ UNCHANGED <<baseVars, tasks, conn, sentinels, effects,
                           finally_runs>>
    /\ UNCHANGED <<provider, tool_mapping, client_got, message_count,
                   limit_warning_sent, warnings, escaped, readerVars>>

\* await websocket.send_json(event) to a client that is there
run_session_forward(c) ==
    /\ pc[c] = "active"
    /\ gen[c] = "yielded"
    /\ client[c] = "connected"
    /\ client_got' = [client_got EXCEPT ![c] = @ \cup {cur_event[c]}]
    /\ cur_event' = [cur_event EXCEPT ![c] = "none"]
    /\ gen' = [gen EXCEPT ![c] = "get"]
    /\ UNCHANGED <<baseVars, provider, tool_mapping, conn, tasks, event_queue,
                   effects, sentinels, message_count, limit_warning_sent,
                   warnings, finally_runs, escaped, readerVars>>

\* send_json raises in run_session: the exception leaves the async for
\* while the generator is suspended at its yield
session_send_fails(c) ==
    /\ gen[c] = "yielded"
    /\ run_session_send_fails(c)
    /\ gen' = [gen EXCEPT ![c] = "abandoned"]
    /\ cur_event' = [cur_event EXCEPT ![c] = "none"]
    /\ finally_runs' = [finally_runs EXCEPT ![c] = @ + 1]
    /\ UNCHANGED <<provider, tool_mapping, conn, tasks, event_queue,
                   client_got, effects, sentinels, message_count,
                   limit_warning_sent, warnings, escaped, readerVars>>

\* wait_for cancels run_session: inside the generator the cancellation runs
\* its finally clause, inside send_json it leaves the generator suspended
session_timeout(c) ==
    /\ wait_for_timeout(c)
    /\ gen[c] \in {"connecting", "get", "yielded"}
    /\ IF gen[c] = "yielded"
       THEN /\ gen' = [gen EXCEPT ![c] = "abandoned"]
            /\ cur_event' = [cur_event EXCEPT ![c] = "none"]
            /\ UNCHANGED <<conn, tasks, event_queue, effects, sentinels>>
       ELSE /\ generator_exit(c, event_queue[c])
            /\ UNCHANGED cur_event
    /\ UNCHANGED <<provider, tool_mapping, client_got, message_count,
                   limit_warning_sent, warnings, finally_runs, escaped,
                   readerVars>>

\* except asyncio.TimeoutError: close(code=1000) raises when the client is
\* gone; the finally block runs all the same and the exception then leaves
\* the handler
session_timeout_close(c) ==
    /\ timeout_close(c)
    /\ escaped' = [escaped EXCEPT ![c] = client[c] # "connected"]
    /\ finally_runs' = [finally_runs EXCEPT ![c] = @ + 1]
    /\ UNCHANGED <<provider, tool_mapping, gen, conn, tasks, event_queue,
                   cur_event, client_got, effects, sentinels, message_count,
                   limit_warning_sent, warnings, readerVars>>

\* websocket.close() raises on a connection that is already closed
close_raises(c) == close_code[c] # 0 \/ client[c] # "connected"

\* the close of the finally block, inside try/except; the handler returns
session_finally_close_unguarded(c) ==
    /\ finally_close(c)
    /\ escaped' = [escaped EXCEPT ![c] = @ \/ close_raises(c)]
    /\ session_reset(c)
    /\ UNCHANGED <<finally_runs, readerVars>>
session_finally_close(c) ==
    /\ finally_close(c)
    /\ IF gen[c] = "abandoned"
       THEN /\ client_got' = [client_got EXCEPT ![c] = {}]
            /\ UNCHANGED <<provider, tool_mapping, gen, conn, tasks,
                           event_queue, cur_event, effects, sentinels,
                           message_count, limit_warning_sent, warnings>>
       ELSE session_reset(c)
    /\ UNCHANGED <<finally_runs, escaped, readerVars>>

\* the event loop's asynchronous generator hook runs aclose() on a generator
\* that was left suspended: its finally clause runs only now, before or
\* after the handler has returned
asyncgen_aclose(c) ==
    /\ gen[c] = "abandoned"
    /\ IF pc[c] = "closed"
       THEN session_reset(c)
       ELSE /\ generator_exit(c, event_queue[c])
            /\ UNCHANGED <<provider, tool_mapping, cur_event, client_got,
                           message_count, limit_warning_sent, warnings>>
    /\ UNCHANGED <<baseVars, finally_runs, escaped, readerVars>>

SessionConns == {1}
SessionTimeSteps == {SESSION_TIME_LIMIT}
\* one token is minted per behaviour; the client presents it, none, or a bad one
SessionTokens == {1, NoToken, BadToken}

SessionNext ==
    \/ \E d \in SessionTimeSteps :
            Tick(d) /\ UNCHANGED <<sessionVars, readerVars>>
            /\ UNCHANGED detailVars
    \/ \E u \in Users :
            /\ minted = {}
            /\ authenticate(u) /\ UNCHANGED <<sessionVars, readerVars>>
            /\ UNCHANGED detailVars
    \/ \E c \in SessionConns : \E tok \in SessionTokens :
            websocket_connect(c, tok) /\ UNCHANGED <<sessionVars, readerVars>>
            /\ UNCHANGED detailVars
    \/ \E c \in SessionConns : \E msg \in SetupMessages :
       \E p \in Providers : \E tm \in SUBSET ToolNames :
            session_setup(c, msg, p, tm)
            /\ UNCHANGED detailVars
    \/ \E c \in SessionConns :
            client_disconnect(c) /\ UNCHANGED <<sessionVars, readerVars>>
            /\ UNCHANGED detailVars
    \/ \E c \in SessionConns :
            receive_from_client_disconnect(c)
            /\ UNCHANGED <<sessionVars, readerVars>>
            /\ UNCHANGED detailVars
    \/ \E c \in SessionConns : start_session_connect(c) /\ UNCHANGED detailVars
    \/ \E c \in SessionConns : start_session_connect_fails(c)
            /\ UNCHANGED detailVars
    \/ \E c \in SessionConns : \E m \in MessageKinds :
            receive_loop_message(c, m, MaxMessages)
            /\ UNCHANGED detailVars
    \/ \E c \in SessionConns : \E how \in BackendFailures :
            receive_loop_fails(c, how)
            /\ UNCHANGED detailVars
    \/ \E c \in SessionConns : consumer_get(c) /\ UNCHANGED detailVars
    \/ \E c \in SessionConns : run_session_forward(c) /\ UNCHANGED detailVars
    \/ \E c \in SessionConns : session_send_fails(c) /\ UNCHANGED detailVars
    \/ \E c \in SessionConns : session_timeout(c) /\ UNCHANGED detailVars
    \/ \E c \in SessionConns : session_timeout_close(c) /\ UNCHANGED detailVars
    \/ \E c \in SessionConns : session_finally_close(c) /\ UNCHANGED detailVars
    \/ \E c \in SessionConns : asyncgen_aclose(c) /\ UNCHANGED detailVars

SpecSession == Init /\ [][SessionNext]_vars

\* -------------------------------------------------------- the reader task
\* A message of websocket.receive(): a binary frame, or a text frame with
\* its length in characters (len(text)) and in bytes on the wire. The class
\* of a text frame says what json.loads and the image branch make of it.
BinarySizes == {0, 100, MAX_MESSAGE_SIZE, MAX_MESSAGE_SIZE + 1}
\* <<characters, bytes>>: ASCII text, text of two-byte characters, long text
TextSizes == {<<100, 100>>, <<MAX_MESSAGE_SIZE, 2 * MAX_MESSAGE_SIZE>>,
              <<MAX_MESSAGE_SIZE + 1, MAX_MESSAGE_SIZE + 1>>}
ImageClasses == {"image_ok", "image_no_data", "image_bad_base64",
                 "image_data_number"}
TextClasses == {"plain", "json_other", "realtime_input"} \cup ImageClasses

Messages ==
    {[kind |-> "bytes", class |-> "audio", chars |-> n, bytes |-> n] :
        n \in BinarySizes}
    \cup {[kind |-> "text", class |-> "empty", chars |-> 0, bytes |-> 0]}
    \cup {[kind |-> "text", class |-> cl, chars |-> sz[1], bytes |-> sz[2]] :
        cl \in TextClasses \ ImageClasses, sz \in TextSizes}
    \* an image message is base64 in a JSON envelope: one byte a character
    \cup {[kind |-> "text", class |-> cl, chars |-> sz[1], bytes |-> sz[1]] :
        cl \in ImageClasses, sz \in TextSizes}

\* the length of the base64 string of an image message: the text without
\* its JSON envelope {"type":"image","data":""}, 26 characters
EnvelopeChars == 26
image_b64_len(m) ==
    IF m.class = "image_no_data" THEN 0 ELSE m.chars - EnvelopeChars

\* base64.b64decode(image_b64)
b64decode(m) == [kind |-> "decoded", class |-> m.class,
                 chars |-> 0, bytes |-> (image_b64_len(m) * 3) \div 4]

\* what one pass of the reader's loop does with message m: "audio",
\* "video" or "text" for the queue it puts it on, "drop" when it goes on
\* to the next message, "raise" when an exception ends the loop
receive_from_client_message(m) ==
    CASE m.kind = "bytes" /\ m.bytes # 0 ->
            IF m.bytes > MAX_MESSAGE_SIZE THEN "drop" ELSE "audio"
      [] m.kind = "text" /\ m.chars # 0 ->
            IF m.chars > MAX_MESSAGE_SIZE THEN "drop"
            ELSE IF m.class \in ImageClasses
            THEN IF m.class = "image_data_number" THEN "raise"
                 ELSE IF image_b64_len(m) = 0
                         \/ 10 * image_b64_len(m) > 14 * MAX_MESSAGE_SIZE
                 THEN "drop"
                 ELSE IF m.class = "image_bad_base64" THEN "drop"
                 ELSE "video"
            ELSE "text"
      [] OTHER -> "drop"

\* message = await websocket.receive() and the handling of the message
receive_from_client_frame(c, m) ==
    /\ receive_task[c] = "running"
    /\ client[c] = "connected"
    /\ frames[c] < MaxFrames
    /\ frames' = [frames EXCEPT ![c] = @ + 1]
    /\ last_message' = [last_message EXCEPT ![c] = m]
    /\ LET way == receive_from_client_message(m)
       IN  /\ audio_input_queue' = [audio_input_queue EXCEPT ![c] =
                    IF way = "audio" THEN Append(@, m) ELSE @]
           /\ video_input_queue' = [video_input_queue EXCEPT ![c] =
                    IF way = "video" THEN Append(@, b64decode(m)) ELSE @]
           /\ text_input_queue' = [text_input_queue EXCEPT ![c] =
                    IF way = "text" THEN Append(@, m) ELSE @]
           /\ receive_task' = [receive_task EXCEPT ![c] =
                    IF way = "raise" THEN "ended" ELSE @]
           /\ enqueued' = IF way \in Channels
                          THEN [enqueued EXCEPT ![c][way] = Append(@,
                                    IF way = "video" THEN b64decode(m) ELSE m)]
                          ELSE enqueued
    /\ UNCHANGED backend_got
    /\ UNCHANGED <<now, ticks, data, tokenVars, pc, token, user_id,
                   effective_timeout, session_start, adapter, client,
                   close_code, cause, end_ret, end_calls, tracked_since,
                   callerVars, sessionVars>>

\* chunk = await queue.get(): the oldest item, and what stays in the queue
queue_get_newest(q) == [item |-> q[Len(q)], rest |-> SubSeq(q, 1, Len(q) - 1)]
queue_get(q) == [item |-> Head(q), rest |-> Tail(q)]

\* the adapter's senders: chunk = await queue.get(), then the send
send_audio(c) ==
    /\ tasks[c]["send_audio"] = "running"
    /\ audio_input_queue[c] # <<>>
    /\ audio_input_queue' = [audio_input_queue EXCEPT ![c] = queue_get(@).rest]
    /\ backend_got' = [backend_got EXCEPT ![c]["audio"] =
                    Append(@, queue_get(audio_input_queue[c]).item)]
    /\ UNCHANGED <<baseVars, sessionVars, video_input_queue, text_input_queue,
                   frames, last_message, enqueued>>

send_video(c) ==
    /\ tasks[c]["send_video"] = "running"
    /\ video_input_queue[c] # <<>>
    /\ video_input_queue' = [video_input_queue EXCEPT ![c] = queue_get(@).rest]
    /\ backend_got' = [backend_got EXCEPT ![c]["video"] =
                    Append(@, queue_get(video_input_queue[c]).item)]
    /\ UNCHANGED <<baseVars, sessionVars, audio_input_queue, text_input_queue,
                   frames, last_message, enqueued>>

send_text(c) ==
    /\ tasks[c]["send_text"] = "running"
    /\ text_input_queue[c] # <<>>
    /\ text_input_queue' = [text_input_queue EXCEPT ![c] = queue_get(@).rest]
    /\ backend_got' = [backend_got EXCEPT ![c]["text"] =
                    Append(@, queue_get(text_input_queue[c]).item)]
    /\ UNCHANGED <<baseVars, sessionVars, audio_input_queue, video_input_queue,
                   frames, last_message, enqueued>>

\* the task that sends channel ch
SenderTask(ch) == "send_" \o ch

\* the inbound queue of channel ch
InputQueue(c, ch) ==
    CASE ch = "audio" -> audio_input_queue[c]
      [] ch = "video" -> video_input_queue[c]
      [] ch = "text" -> text_input_queue[c]

\* the send of the sender of channel ch raises: the try statement is
\* around the while loop and has no handler that goes back into it, so the
\* exception ends the task; the item it had taken is not sent
send_raises(c, ch) ==
    /\ tasks[c][SenderTask(ch)] = "running"
    /\ InputQueue(c, ch) # <<>>
    /\ audio_input_queue' = [audio_input_queue EXCEPT ![c] =
            IF ch = "audio" THEN queue_get(@).rest ELSE @]
    /\ video_input_queue' = [video_input_queue EXCEPT ![c] =
            IF ch = "video" THEN queue_get(@).rest ELSE @]
    /\ text_input_queue' = [text_input_queue EXCEPT ![c] =
            IF ch = "text" THEN queue_get(@).rest ELSE @]
    /\ tasks' = [tasks EXCEPT ![c][SenderTask(ch)] = "ended"]
    /\ UNCHANGED <<baseVars, provider, tool_mapping, gen, conn, event_queue,
                   cur_event, client_got, effects, sentinels, message_count,
                   limit_warning_sent, warnings, finally_runs, escaped,
                   frames, last_message, enqueued, backend_got>>

ReaderNext ==
    \/ authenticate("") /\ UNCHANGED <<sessionVars, readerVars>>
            /\ UNCHANGED detailVars
    \/ \E c \in SessionConns : \E tok \in Tokens :
            websocket_connect(c, tok) /\ UNCHANGED <<sessionVars, readerVars>>
            /\ UNCHANGED detailVars
    \/ \E c \in SessionConns : \E p \in Providers :
            session_setup(c, "setup", p, {})
            /\ UNCHANGED detailVars
    \/ \E c \in SessionConns : start_session_connect(c) /\ UNCHANGED detailVars
    \/ \E c \in SessionConns : \E m \in Messages :
            receive_from_client_frame(c, m)
            /\ UNCHANGED detailVars
    \/ \E c \in SessionConns : send_audio(c) /\ UNCHANGED detailVars
    \/ \E c \in SessionConns : send_video(c) /\ UNCHANGED detailVars
    \/ \E c \in SessionConns : send_text(c) /\ UNCHANGED detailVars
    \/ \E c \in SessionConns : \E ch \in Channels : send_raises(c, ch)
            /\ UNCHANGED detailVars
    \/ \E c \in SessionConns :
            client_disconnect(c) /\ UNCHANGED <<sessionVars, readerVars>>
            /\ UNCHANGED detailVars
    \/ \E c \in SessionConns :
            receive_from_client_disconnect(c)
            /\ UNCHANGED <<sessionVars, readerVars>>
            /\ UNCHANGED detailVars

SpecReader == Init /\ [][ReaderNext]_vars

\* The same with the event loop running every task that can run: a sender
\* whose queue holds an item takes it, and the adapter gets connected.
SpecSenders ==
    /\ SpecReader
    /\ \A c \in SessionConns :
        /\ WF_vars(start_session_connect(c) /\ UNCHANGED detailVars)
        /\ WF_vars((send_audio(c) \/ send_raises(c, "audio"))
                        /\ UNCHANGED detailVars)
        /\ WF_vars((send_video(c) \/ send_raises(c, "video"))
                        /\ UNCHANGED detailVars)
        /\ WF_vars((send_text(c) \/ send_raises(c, "text"))
                        /\ UNCHANGED detailVars)

\* ------------------------------- the SDK adapter's receive loop, many messages
\* One anonymous session on the SDK adapter whose backend keeps sending.
LimitKinds == {"audio", "turn_complete"}

LimitNext ==
    \/ authenticate("") /\ UNCHANGED <<sessionVars, readerVars>>
            /\ UNCHANGED detailVars
    \/ \E c \in SessionConns : \E tok \in Tokens :
            websocket_connect(c, tok) /\ UNCHANGED <<sessionVars, readerVars>>
            /\ UNCHANGED detailVars
    \/ \E c \in SessionConns : session_setup(c, "setup", "gemini", {})
            /\ UNCHANGED detailVars
    \/ \E c \in SessionConns : start_session_connect(c) /\ UNCHANGED detailVars
    \/ \E c \in SessionConns : \E m \in LimitKinds :
            receive_loop_message(c, m, MaxCount)
            /\ UNCHANGED detailVars
    \/ \E c \in SessionConns : consumer_get(c) /\ UNCHANGED detailVars
    \/ \E c \in SessionConns : run_session_forward(c) /\ UNCHANGED detailVars

SpecLimit == Init /\ [][LimitNext]_vars

\* --------------------------- the SDK adapter's tool calls, several per message
\* A function call of a tool-call message: its name, and whether the handler
\* registered under that name raises when it is called with the arguments.
MaxCalls == 2
CallNames == ToolNames \cup {"client_tool"}
FunctionCalls == [name : CallNames, raises : BOOLEAN]
ToolCallMessages ==
    UNION {[1..n -> FunctionCalls] : n \in 1..MaxCalls}

\* tool_func(**args): the result, or an exception
tool_func(fc) == IF fc.raises THEN "raise" ELSE "result"

\* try: result = tool_func(**args); except Exception as e: result = f"Error: {e}"
call_tool_uncaught(fc) == tool_func(fc)
call_tool(fc) == IF tool_func(fc) = "raise" THEN "Error" ELSE tool_func(fc)

\* for fc in tool_call.function_calls, from call i on: acc holds the
\* effects so far, function_responses and client_tool_calls; an exception
\* that nothing catches leaves the loop
RECURSIVE function_calls_loop(_, _, _, _)
function_calls_loop(tm, fcs, i, acc) ==
    IF i > Len(fcs) \/ acc.raised THEN acc
    ELSE LET fc == fcs[i]
             result == call_tool(fc)
         IN  function_calls_loop(tm, fcs, i + 1,
                IF fc.name \notin tm
                THEN [acc EXCEPT !.client_tool_calls = Append(@, fc.name)]
                ELSE IF result = "raise"
                THEN [acc EXCEPT !.effects = Append(@, Invoke(fc.name)),
                                 !.raised = TRUE]
                ELSE [acc EXCEPT
                        !.effects = @ \o <<Invoke(fc.name), Put("tool_call")>>,
                        !.function_responses =
                            Append(@, [name |-> fc.name, result |-> result])])

\* the tool_call branch of the receive loop for one message
gemini_function_calls(tm, fcs) ==
    LET acc == function_calls_loop(tm, fcs, 1,
                    [effects |-> <<>>, function_responses |-> <<>>,
                     client_tool_calls |-> <<>>, raised |-> FALSE])
    IN  IF acc.raised THEN acc
        ELSE [acc EXCEPT !.effects =
                @ \o (IF acc.client_tool_calls # <<>>
                      THEN <<Put("toolCall")>> ELSE <<>>)
                  \o [k \in 1..Len(acc.function_responses) |->
                        ToolResponse(acc.function_responses[k].name)]]

\* the receive loop takes a tool-call message with the function calls fcs
receive_loop_tool_call(c, fcs) ==
    /\ tasks[c]["receive_loop"] = "running"
    /\ conn[c] = "open"
    /\ provider[c] = "gemini"
    /\ message_count[c] < MaxMessages
    /\ Len(event_queue[c]) < MaxQueue
    /\ LET count == message_count[c] + 1
           warn == limit_warning(provider[c], count, limit_warning_sent[c])
           r == gemini_function_calls(tool_mapping[c], fcs)
           es == (IF warn THEN <<Put("messageLimitWarning")>> ELSE <<>>)
                 \o r.effects
                 \o (IF r.raised THEN receive_loop_except ELSE <<>>)
       IN  /\ message_count' = [message_count EXCEPT ![c] = count]
           /\ limit_warning_sent' = [limit_warning_sent EXCEPT ![c] = @ \/ warn]
           /\ warnings' = [warnings EXCEPT ![c] =
                    IF warn THEN Append(@, <<count, MESSAGE_LIMIT>>) ELSE @]
           /\ effects' = [effects EXCEPT ![c] = es]
           /\ event_queue' = [event_queue EXCEPT ![c] = @ \o Puts(es)]
           /\ sentinels' = [sentinels EXCEPT ![c] = @ + CountSentinels(Puts(es))]
           /\ tasks' = [tasks EXCEPT ![c]["receive_loop"] =
                    IF r.raised THEN "ended" ELSE @]
           /\ tool_results' = [tool_results EXCEPT ![c] =
                    IF r.raised THEN @ ELSE @ \o r.function_responses]
    /\ last_calls' = [last_calls EXCEPT ![c] = fcs]
    /\ UNCHANGED <<baseVars, provider, tool_mapping, gen, conn, cur_event,
                   client_got, finally_runs, escaped, readerVars>>

\* One anonymous session on the SDK adapter whose backend sends tool calls.
ToolsNext ==
    \/ authenticate("") /\ UNCHANGED <<sessionVars, readerVars, detailVars>>
    \/ \E c \in SessionConns : \E tok \in Tokens :
            websocket_connect(c, tok)
            /\ UNCHANGED <<sessionVars, readerVars, detailVars>>
    \/ \E c \in SessionConns : \E tm \in SUBSET ToolNames :
            session_setup(c, "setup", "gemini", tm) /\ UNCHANGED detailVars
    \/ \E c \in SessionConns : start_session_connect(c) /\ UNCHANGED detailVars
    \/ \E c \in SessionConns : consumer_get(c) /\ UNCHANGED detailVars
    \/ \E c \in SessionConns : run_session_forward(c) /\ UNCHANGED detailVars
    \/ \E c \in SessionConns : \E fcs \in ToolCallMessages :
            receive_loop_tool_call(c, fcs)
            /\ UNCHANGED <<configVars, audioVars, usageVars, authVars,
                           oauthVars,
                           quotaVars>>

SpecTools == Init /\ [][ToolsNext]_vars

\* ------------------------------------------- the setup message and its config
\* A value the client can send as setup: nothing, a number other than 0, a
\* non-empty string that holds none of the field names, or a JSON object
\* with some of the fields, each of some shape: "object" is the shape the
\* adapters expect, "number" and "string" are a value of another type.
MaxFields == 2
FieldNames == {"generation_config", "system_instruction", "proactivity",
               "tools", "output_audio_transcription", "session_resumption",
               "realtime_input_config", "unknown_field"}
\* generation_config whose response_modalities is a number, or a list with
\* a modality the SDK does not know; realtime_input_config whose
\* automatic_activity_detection is a string
FieldShapes(f) ==
    {"object", "number", "string"}
    \cup (IF f = "generation_config"
          THEN {"modalities_number", "unknown_modality"} ELSE {})
    \cup (IF f = "realtime_input_config" THEN {"aad_string"} ELSE {})
AllShapes == UNION {FieldShapes(f) : f \in FieldNames}
FieldSets == {S \in SUBSET FieldNames : Cardinality(S) <= MaxFields}
SetupConfigs ==
    {NoConfig, [kind |-> "number", fields |-> NoFields],
     [kind |-> "string", fields |-> NoFields]}
    \cup {[kind |-> "object", fields |-> fs] :
            fs \in UNION {{g \in [S -> AllShapes] :
                            \A f \in S : g[f] \in FieldShapes(f)} :
                          S \in FieldSets}}

\* the first message of a connection
SetupFrameKinds == {"disconnect", "binary", "not_json", "json_null",
                    "json_number", "json_string", "json_string_setup",
                    "json_list", "json_list_setup", "object_no_setup"}
SetupFrames ==
    {[kind |-> k, setup |-> NoConfig] : k \in SetupFrameKinds}
    \cup {[kind |-> "object_setup", setup |-> cfg] : cfg \in SetupConfigs}

\* message = await websocket.receive_text(); initial_data =
\* json.loads(message); if "setup" in initial_data: setup_config =
\* initial_data["setup"], with the exceptions these raise
initial_setup(m) ==
    CASE m.kind \in {"disconnect", "binary"} ->       \* receive_text raises
            [raised |-> TRUE, setup |-> NoConfig]
      [] m.kind = "not_json" ->                          \* json.loads raises
            [raised |-> TRUE, setup |-> NoConfig]
      [] m.kind \in {"json_null", "json_number"} ->      \* "setup" in 5
            [raised |-> TRUE, setup |-> NoConfig]
      [] m.kind \in {"json_string_setup", "json_list_setup"} ->
            [raised |-> TRUE, setup |-> NoConfig]        \* "setup"["setup"]
      [] m.kind = "object_setup" -> [raised |-> FALSE, setup |-> m.setup]
      [] OTHER -> [raised |-> FALSE, setup |-> NoConfig]

\* the try statement around it: except Exception logs a warning
receive_setup_as_is(m) ==
    IF m.kind = "json_number"
    THEN [kind |-> "number", fields |-> NoFields]
    ELSE initial_setup(m).setup
receive_setup(m) ==
    IF initial_setup(m).raised THEN NoConfig ELSE initial_setup(m).setup

\* the class of the first message in the terms of SetupMessages
SetupClass(m) ==
    CASE m.kind = "disconnect" -> "disconnect"
      [] m.kind = "object_setup" -> "setup"
      [] m.kind = "object_no_setup" -> "no_setup"
      [] OTHER -> "malformed"

\* a handler that hands its first message on to the reader's text queue
websocket_setup_frame_enqueue(c, m, p) ==
    /\ websocket_setup(c, SetupClass(m))
    /\ provider' = [provider EXCEPT ![c] = p]
    /\ tool_mapping' = [tool_mapping EXCEPT ![c] = {}]
    /\ gen' = [gen EXCEPT ![c] = "connecting"]
    /\ text_input_queue' = [text_input_queue EXCEPT ![c] = Append(@, m)]
    /\ enqueued' = [enqueued EXCEPT ![c]["text"] = Append(@, m)]
    /\ first_message' = [first_message EXCEPT ![c] = m]
    /\ setup_config' = [setup_config EXCEPT ![c] = receive_setup(m)]
    /\ UNCHANGED <<conn, tasks, event_queue, cur_event, client_got, effects,
                   sentinels, message_count, limit_warning_sent, warnings,
                   finally_runs, escaped, audio_input_queue,
                   video_input_queue, frames, last_message, backend_got,
                   native_config>>

\* the handler from the first message to wait_for(run_session())
websocket_setup_frame(c, m, p) ==
    /\ session_setup(c, SetupClass(m), p, {})
    /\ first_message' = [first_message EXCEPT ![c] = m]
    /\ setup_config' = [setup_config EXCEPT ![c] = receive_setup(m)]
    /\ UNCHANGED native_config

\* bool(setup_config)
Truthy(cfg) ==
    cfg.kind \in {"number", "string"}
    \/ (cfg.kind = "object" /\ DOMAIN cfg.fields # {})

Shape(cfg, f) == IF f \in DOMAIN cfg.fields THEN cfg.fields[f] ELSE "absent"

Translated(ks) == [raised |-> FALSE, keys |-> ks]
ConfigRaised == [raised |-> TRUE, keys |-> {}]

\* The SDK adapter's translation: the outcomes it can have for cfg, each
\* the set of LiveConnectConfig arguments it sets, or an exception.
\* types.Modality(m) for an unknown m raises or warns, by SDK version.
gemini_config(cfg) ==
    LET defaults == {"response_modalities", "session_resumption"}
        gc == Shape(cfg, "generation_config")
        keys == defaults
            \cup (IF gc \in {"object", "unknown_modality"}
                  THEN {"speech_config"} ELSE {})
            \cup {f \in {"system_instruction", "proactivity", "tools"} :
                    Shape(cfg, f) = "object"}
            \cup (IF Shape(cfg, "output_audio_transcription") # "absent"
                  THEN {"output_audio_transcription"} ELSE {})
    IN  IF ~Truthy(cfg) \/ cfg.kind = "string" THEN {Translated(defaults)}
        ELSE IF cfg.kind = "number" THEN {ConfigRaised}
        ELSE IF gc \in {"number", "modalities_number"} THEN {ConfigRaised}
        ELSE IF Shape(cfg, "session_resumption") \in {"number", "string"}
        THEN {ConfigRaised}
        ELSE IF gc = "unknown_modality"
        THEN {ConfigRaised, Translated(keys)}
        ELSE {Translated(keys)}

\* QwenOmniLive._build_session_config: the session settings it sets
qwen_config(cfg) ==
    LET defaults == {"modalities", "turn_detection",
                     "input_audio_transcription"}
        keys == defaults
            \cup (IF Shape(cfg, "generation_config") # "absent"
                  THEN {"voice"} ELSE {})
            \cup (IF Shape(cfg, "system_instruction") = "object"
                  THEN {"instructions"} ELSE {})
    IN  IF ~Truthy(cfg) \/ cfg.kind = "string" THEN {Translated(defaults)}
        ELSE IF cfg.kind = "number" THEN {ConfigRaised}
        ELSE IF Shape(cfg, "realtime_input_config")
                    \in {"number", "string", "aad_string"}
        THEN {ConfigRaised}
        ELSE {Translated(keys)}

adapter_config(p, cfg) ==
    IF p = "gemini" THEN gemini_config(cfg) ELSE qwen_config(cfg)

\* start_session up to the creation of its tasks: the translation of the
\* config and the connection to the backend (the raw adapter connects
\* first and releases the connection when the translation raises)
start_session_begin(c) ==
    /\ gen[c] = "connecting"
    /\ \E out \in adapter_config(provider[c], setup_config[c]) :
        /\ native_config' = [native_config EXCEPT ![c] = out]
        /\ IF out.raised
           THEN /\ run_session_error(c)
                /\ gen' = [gen EXCEPT ![c] = "closed"]
                /\ finally_runs' = [finally_runs EXCEPT ![c] = @ + 1]
                /\ conn' = [conn EXCEPT ![c] =
                        IF provider[c] = "qwen" THEN "released" ELSE @]
                /\ UNCHANGED <<provider, tool_mapping, tasks, event_queue,
                               cur_event, client_got, effects, sentinels,
                               message_count, limit_warning_sent, warnings,
                               escaped, readerVars>>
           ELSE start_session_connect(c)
    /\ UNCHANGED <<first_message, setup_config>>

\* One anonymous connection from its first message to the start of the
\* adapter's tasks.
ConfigNext ==
    \/ authenticate("") /\ UNCHANGED <<sessionVars, readerVars, detailVars>>
    \/ \E c \in SessionConns : \E tok \in Tokens :
            websocket_connect(c, tok)
            /\ UNCHANGED <<sessionVars, readerVars, detailVars>>
    \/ \E c \in SessionConns :
            start_session_connect_fails(c) /\ UNCHANGED detailVars
    \/ \E c \in SessionConns : \E m \in SetupFrames : \E p \in Providers :
            websocket_setup_frame(c, m, p)
            /\ UNCHANGED <<toolVars, audioVars, usageVars, authVars,
                           oauthVars,
                           quotaVars>>
    \/ \E c \in SessionConns :
            start_session_begin(c) /\ UNCHANGED <<toolVars, audioVars, usageVars, authVars,
                           oauthVars,
                           quotaVars>>

SpecConfig == Init /\ [][ConfigNext]_vars

\* ------------------------------------------------ synthesized audio output
\* A backend message carries audio chunks: the parts with inline_data of a
\* model turn (SDK adapter), or the delta of one response.audio.delta (raw
\* adapter). Chunks are numbered in the order the backend emits them.
MaxParts == 2
PartCounts(p) == IF p = "gemini" THEN 1..MaxParts ELSE {1}

\* the receive loop takes a message with n audio chunks
receive_loop_audio(c, n) ==
    /\ tasks[c]["receive_loop"] = "running"
    /\ conn[c] = "open"
    /\ audio_pending[c] = <<>>
    /\ message_count[c] < MaxMessages
    /\ n \in PartCounts(provider[c])
    /\ LET first == Len(audio_emitted[c])
           parts == [i \in 1..n |-> first + i]
       IN  /\ audio_emitted' = [audio_emitted EXCEPT ![c] = @ \o parts]
           /\ audio_pending' = [audio_pending EXCEPT ![c] = parts]
    /\ message_count' = [message_count EXCEPT ![c] = @ + 1]
    /\ UNCHANGED <<baseVars, provider, tool_mapping, gen, conn, tasks,
                   event_queue, cur_event, client_got, effects, sentinels,
                   limit_warning_sent, warnings, finally_runs, escaped,
                   readerVars, client_audio>>

\* which of the waiting parts the loop hands to the sink next: for part in
\* parts, each call awaited before the next
next_part_any(parts) == Len(parts)
next_part(parts) == 1

\* await audio_output_callback(data), that is websocket.send_bytes(data);
\* to a client that is gone it raises inside the receive loop, whose
\* except and finally clauses end the loop
audio_output_callback(c) ==
    /\ tasks[c]["receive_loop"] = "running"
    /\ audio_pending[c] # <<>>
    /\ LET k == next_part(audio_pending[c])
           raised == client[c] # "connected"
           es == <<AudioOut>> \o (IF raised THEN receive_loop_except ELSE <<>>)
       IN  /\ client_audio' = [client_audio EXCEPT ![c] =
                    IF raised THEN @ ELSE Append(@, audio_pending[c][k])]
           /\ audio_pending' = [audio_pending EXCEPT ![c] =
                    IF raised THEN <<>>
                    ELSE SubSeq(@, 1, k - 1) \o SubSeq(@, k + 1, Len(@))]
           /\ effects' = [effects EXCEPT ![c] = es]
           /\ event_queue' = [event_queue EXCEPT ![c] = @ \o Puts(es)]
           /\ sentinels' = [sentinels EXCEPT ![c] = @ + CountSentinels(Puts(es))]
           /\ tasks' = [tasks EXCEPT ![c]["receive_loop"] =
                    IF raised THEN "ended" ELSE @]
    /\ UNCHANGED <<baseVars, provider, tool_mapping, gen, conn, cur_event,
                   client_got, message_count, limit_warning_sent, warnings,
                   finally_runs, escaped, readerVars, audio_emitted>>

\* One anonymous session whose backend sends audio.
AudioNext ==
    \/ authenticate("") /\ UNCHANGED <<sessionVars, readerVars, detailVars>>
    \/ \E c \in SessionConns : \E tok \in Tokens :
            websocket_connect(c, tok)
            /\ UNCHANGED <<sessionVars, readerVars, detailVars>>
    \/ \E c \in SessionConns : \E p \in Providers :
            session_setup(c, "setup", p, {}) /\ UNCHANGED detailVars
    \/ \E c \in SessionConns : start_session_connect(c) /\ UNCHANGED detailVars
    \/ \E c \in SessionConns : \E n \in 1..MaxParts :
            receive_loop_audio(c, n) /\ UNCHANGED <<toolVars, configVars, usageVars,
                           authVars, oauthVars,
                           quotaVars>>
    \/ \E c \in SessionConns :
            audio_output_callback(c) /\ UNCHANGED <<toolVars, configVars, usageVars,
                           authVars, oauthVars,
                           quotaVars>>
    \/ \E c \in SessionConns :
            client_disconnect(c)
            /\ UNCHANGED <<sessionVars, readerVars, detailVars>>
    \/ \E c \in SessionConns : consumer_get(c) /\ UNCHANGED detailVars

SpecAudio == Init /\ [][AudioNext]_vars

\* ------------------------------------------- the usage tracker's read side
\* usage_tracker.get_remaining(user_id), called directly; the read goes
\* through MemoryStorage.get, which first removes the expired keys
tracker_remaining(u) ==
    /\ data' = storage_get_data(data, _get_usage_key(u, now), now)
    /\ last_read' = [op |-> "remaining", user |-> u,
                     used |-> get_user_usage_today(data, u, now),
                     ret |-> get_user_remaining_today(data, u, now)]
    /\ UNCHANGED <<now, ticks, tokenVars, connVars, callerVars>>

\* usage_tracker.can_start(user_id), called directly
tracker_can_start(u) ==
    /\ data' = IF u = "" THEN data
               ELSE storage_get_data(data, _get_usage_key(u, now), now)
    /\ last_read' = [op |-> "can_start", user |-> u,
                     allowed |-> can_user_start_session(data, u, now)]
    /\ UNCHANGED <<now, ticks, tokenVars, connVars, callerVars>>

\* one caller: the operations run one after the other
UsageCallers == {1}

\* Every operation of the usage tracker, called directly on one store.
UsageNext ==
    \/ \E d \in TimeSteps : Tick(d)
            /\ UNCHANGED <<sessionVars, readerVars, detailVars>>
    \/ \E sid \in Sessions : \E u \in TrackedUsers : tracker_start(sid, u)
            /\ UNCHANGED <<sessionVars, readerVars, detailVars>>
    \/ \E p \in UsageCallers : \E sid \in Sessions : end_session_get(p, sid)
            /\ UNCHANGED <<sessionVars, readerVars, detailVars>>
    \/ \E p \in UsageCallers : end_session_delete(p)
            /\ UNCHANGED <<sessionVars, readerVars, detailVars>>
    \/ \E p \in UsageCallers : end_session_incrby(p)
            /\ UNCHANGED <<sessionVars, readerVars, detailVars>>
    \/ \E u \in TrackedUsers : tracker_remaining(u)
            /\ UNCHANGED <<sessionVars, readerVars, toolVars, configVars,
                           audioVars, authVars, oauthVars,
                           quotaVars>>
    \/ \E u \in TrackedUsers \cup {""} : tracker_can_start(u)
            /\ UNCHANGED <<sessionVars, readerVars, toolVars, configVars,
                           audioVars, authVars, oauthVars,
                           quotaVars>>

SpecUsage == Init /\ [][UsageNext]_vars

\* ---------------------------------------------- /api/auth, request by request
\* The environment the server was started in: DEV_MODE, whether
\* ACCESS_PASSWORD and RECAPTCHA_SITE_KEY are set, and whether
\* course_auth.is_enabled().
AuthEnvs == [dev_mode : BOOLEAN, access_password : BOOLEAN,
             recaptcha_site_key : BOOLEAN, course_auth : BOOLEAN]
\* The JSON body of the request, by what each field is worth: a JWT or
\* signed parameters that validate or not, the right or a wrong password, a
\* reCAPTCHA token that validates and passes the threshold, validates with
\* a low score, or does not validate.
AuthRequests == [jwt_token : {"none", "valid", "invalid"},
                 signed_params : {"none", "valid", "invalid"},
                 password : {"none", "right", "wrong"},
                 recaptcha_token : {"none", "good", "low_score", "invalid"}]
HTTP_OK == 200
HTTP_BAD_REQUEST == 400
HTTP_FORBIDDEN == 403
HTTP_TOO_MANY == 429
HTTP_INTERNAL_ERROR == 500
\* the user a validated JWT or signed URL names
CourseUser == "u1"
AuthAccepted(u) == [status |-> HTTP_OK, user |-> u]
AuthRefused(code) == [status |-> code, user |-> ""]

\* validation_result of the reCAPTCHA branch
recaptcha_result(env, req) ==
    IF env.dev_mode THEN [valid |-> TRUE, passes_threshold |-> TRUE]
    ELSE [valid |-> req.recaptcha_token \in {"good", "low_score"},
          passes_threshold |-> req.recaptcha_token = "good"]

\* Method 3: password, then reCAPTCHA. The test of passes_threshold stands
\* after the if/else on RECAPTCHA_SITE_KEY: without a site key
\* validation_result was never assigned, the read raises UnboundLocalError
\* and the handler's except clause turns it into status 500.
auth_password_recaptcha(env, req) ==
    IF env.access_password /\ req.password # "right"
    THEN AuthRefused(HTTP_FORBIDDEN)
    ELSE IF ~env.recaptcha_site_key THEN AuthRefused(HTTP_INTERNAL_ERROR)
    ELSE IF req.recaptcha_token = "none" THEN AuthRefused(HTTP_BAD_REQUEST)
    ELSE IF ~recaptcha_result(env, req).valid THEN AuthRefused(HTTP_FORBIDDEN)
    ELSE IF ~recaptcha_result(env, req).passes_threshold
         THEN AuthRefused(HTTP_FORBIDDEN)
    ELSE AuthAccepted("")

\* the three methods in priority order
auth_method(env, req) ==
    IF req.jwt_token # "none" /\ env.course_auth
    THEN IF req.jwt_token = "valid" THEN AuthAccepted(CourseUser)
         ELSE AuthRefused(HTTP_FORBIDDEN)
    ELSE IF req.signed_params # "none" /\ env.course_auth
    THEN IF req.signed_params = "valid" THEN AuthAccepted(CourseUser)
         ELSE AuthRefused(HTTP_FORBIDDEN)
    ELSE auth_password_recaptcha(env, req)

\* effective_session_limit = min(SESSION_TIME_LIMIT, int(remaining_seconds))
effective_session_limit(d, u, t) ==
    IF u = "" THEN SESSION_TIME_LIMIT
    ELSE Min(SESSION_TIME_LIMIT, get_user_remaining_today(d, u, t))

\* POST /api/auth with body req on a server started in env
api_auth(env, req) ==
    \* the environment is read once, when the server starts
    /\ IF last_auth = NoAuth THEN TRUE ELSE last_auth.env = env
    /\ LET m == auth_method(env, req)
       IN
        IF m.status = HTTP_OK
        THEN /\ authenticate(m.user)
             /\ last_auth' =
                  IF can_user_start_session(data, m.user, now)
                  THEN [status |-> HTTP_OK, env |-> env, req |-> req,
                        session_token |-> Cardinality(minted) + 1,
                        session_time_limit |->
                            effective_session_limit(data, m.user, now)]
                  ELSE [status |-> HTTP_TOO_MANY, env |-> env, req |-> req]
        ELSE /\ last_auth' = [status |-> m.status, env |-> env, req |-> req]
             /\ UNCHANGED baseVars

\* what the course user has left of the day when the first request comes:
\* just under and just at the least a session may start with, and less
\* than a whole session
AuthRemaining == {MIN_START_SECONDS - 1, MIN_START_SECONDS,
                  SESSION_TIME_LIMIT - 1}

\* the usage the user's earlier sessions of the day have reported
auth_earlier_sessions(amount) ==
    /\ last_auth = NoAuth
    /\ data = EmptyMap
    /\ data' = storage_incrby(data, _get_usage_key(CourseUser, now), amount,
                              USAGE_TTL, now)
    /\ UNCHANGED <<now, ticks, tokenVars, connVars, callerVars>>

AuthNext ==
    \/ \E r \in AuthRemaining :
            auth_earlier_sessions(DAILY_USER_LIMIT - r)
            /\ UNCHANGED <<sessionVars, readerVars, detailVars>>
    \/ \E env \in AuthEnvs : \E req \in AuthRequests :
            api_auth(env, req)
            /\ UNCHANGED <<sessionVars, readerVars, toolVars, configVars,
                           audioVars, usageVars, oauthVars,
                           quotaVars>>

SpecAuth == Init /\ [][AuthNext]_vars

\* ------------------------------------------------ the OAuth state values
\* TeachableAuth keeps each state value of an authorization it started in
\* the shared store for OAUTH_STATE_TTL seconds; the callback reads and
\* removes it. Callbacks run on several relay instances over one store,
\* every storage call is one step.
OAUTH_STATE_TTL == 600
NumStates == 2
OAuthStates == 1..NumStates
_get_oauth_key(st) == <<"oauth_state:", st, "", 0>>

\* get_authorization_url: state = secrets.token_urlsafe(32), stored with TTL
get_authorization_url(st) ==
    /\ st \notin oauth_issued
    /\ \A s2 \in OAuthStates : s2 < st => s2 \in oauth_issued
    /\ oauth_issued' = oauth_issued \cup {st}
    /\ data' = storage_set(data, _get_oauth_key(st),
                           json_dumps([created_at |-> now]),
                           OAUTH_STATE_TTL, now)
    /\ UNCHANGED <<now, ticks, tokenVars, connVars, callerVars, oauth_cb>>

\* handle_callback, up to data = storage.get_json(key) of
\* _get_and_delete_oauth_state; a state that is not stored is answered
\* with "Invalid or expired state"
handle_callback_get(p, st) ==
    /\ oauth_cb[p].pc = "idle"
    /\ data' = storage_get_data(data, _get_oauth_key(st), now)
    /\ oauth_cb' = [oauth_cb EXCEPT ![p] =
            IF storage_get_found(data, _get_oauth_key(st), now)
            THEN [pc |-> "got", state |-> st, result |-> "none"]
            ELSE [pc |-> "done", state |-> st,
                  result |-> "Invalid or expired state"]]
    /\ UNCHANGED <<now, ticks, tokenVars, connVars, callerVars, oauth_issued>>

\* if data: storage.delete(key); return data. The callback is past the
\* state check and goes on to the token exchange.
handle_callback_delete(p) ==
    /\ oauth_cb[p].pc = "got"
    /\ data' = storage_delete(data, _get_oauth_key(oauth_cb[p].state))
    /\ oauth_cb' = [oauth_cb EXCEPT ![p].pc = "done",
                                    ![p].result = "state accepted"]
    /\ UNCHANGED <<now, ticks, tokenVars, connVars, callerVars, oauth_issued>>

OAuthNext ==
    \/ \E d \in TimeSteps : Tick(d)
            /\ UNCHANGED <<sessionVars, readerVars, detailVars>>
    \/ \E st \in OAuthStates : get_authorization_url(st)
            /\ UNCHANGED <<sessionVars, readerVars, toolVars, configVars,
                           audioVars, usageVars, authVars, quotaVars>>
    \/ \E p \in Callers : \E st \in OAuthStates \cup {NumStates + 1} :
            handle_callback_get(p, st)
            /\ UNCHANGED <<sessionVars, readerVars, toolVars, configVars,
                           audioVars, usageVars, authVars, quotaVars>>
    \/ \E p \in Callers : handle_callback_delete(p)
            /\ UNCHANGED <<sessionVars, readerVars, toolVars, configVars,
                           audioVars, usageVars, authVars, quotaVars>>

SpecOAuth == Init /\ [][OAuthNext]_vars

\* ------------------------------------- one user's sessions and the quota
\* The quota side of /api/auth and /ws for the sessions of one identified
\* user, who may hold several at a time: the usage check of authenticate,
\* usage_tracker.start, the deadline, usage_tracker.end. The client sends
\* its setup message at once, so nothing but the session itself is billed.
QuotaUser == "u1"
\* what the user's earlier sessions of the day have added up to
EarlierUsage == {3400}

earlier_sessions(amount) ==
    /\ data = EmptyMap
    /\ now = 0
    /\ data' = storage_incrby(data, _get_usage_key(QuotaUser, now), amount,
                              USAGE_TTL, now)
    /\ UNCHANGED <<now, ticks, tokenVars, connVars, callerVars,
                   quota_sessions>>

\* authenticate lets the user in (no 429), the token is consumed, the
\* start marker written and the deadline computed
quota_session_open(s) ==
    /\ quota_sessions[s].pc = "none"
    /\ can_user_start_session(data, QuotaUser, now)
    /\ data' = start_session(data, s, QuotaUser, now)
    /\ quota_sessions' = [quota_sessions EXCEPT ![s] =
            [pc |-> "active", session_start |-> now,
             effective_timeout |->
                compute_effective_timeout(data, QuotaUser, now)]]
    /\ UNCHANGED <<now, ticks, tokenVars, connVars, callerVars>>

\* the session ends (stream end, error, disconnect or timeout) and its
\* finally block calls usage_tracker.end
quota_session_close(s) ==
    /\ quota_sessions[s].pc = "active"
    /\ data' = end_session_data(data, s, now)
    /\ quota_sessions' = [quota_sessions EXCEPT ![s].pc = "closed"]
    /\ UNCHANGED <<now, ticks, tokenVars, connVars, callerVars>>

\* the clock, held back by the timers of the open sessions as in Tick
QuotaTickLimits ==
    {LET deadline == quota_sessions[s].session_start
                        + quota_sessions[s].effective_timeout
     IN  IF now < deadline THEN deadline ELSE deadline + SchedTick :
        s \in {x \in QuotaSessions : quota_sessions[x].pc = "active"}}

quota_tick(d) ==
    /\ ticks < MaxTicks
    /\ LET target == SetMin(QuotaTickLimits \cup {now + d})
       IN  /\ target > now
           /\ now' = target
    /\ ticks' = ticks + 1
    /\ UNCHANGED <<data, tokenVars, connVars, callerVars, quota_sessions>>

QuotaNext ==
    \/ \E a \in EarlierUsage : earlier_sessions(a)
            /\ UNCHANGED <<sessionVars, readerVars, toolVars, configVars,
                           audioVars, usageVars, authVars, oauthVars>>
    \/ \E s \in QuotaSessions : quota_session_open(s)
            /\ UNCHANGED <<sessionVars, readerVars, toolVars, configVars,
                           audioVars, usageVars, authVars, oauthVars>>
    \/ \E s \in QuotaSessions : quota_session_close(s)
            /\ UNCHANGED <<sessionVars, readerVars, toolVars, configVars,
                           audioVars, usageVars, authVars, oauthVars>>
    \/ \E d \in TimeSteps : quota_tick(d)
            /\ UNCHANGED <<sessionVars, readerVars, toolVars, configVars,
                           audioVars, usageVars, authVars, oauthVars>>

SpecQuota == Init /\ [][QuotaNext]_vars

\* ------------------------------------------- one connection, with fairness
\* The timer of wait_for fires: whatever the clock has done so far, it
\* gets to the next pending deadline.
timer_fires ==
    /\ TickLimits # {}
    /\ SetMin(TickLimits) > now
    /\ now' = SetMin(TickLimits)
    /\ UNCHANGED <<ticks, data, tokenVars, connVars, callerVars>>

LiveConns == {1}

LiveNext ==
    \/ \E d \in TimeSteps : Tick(d)
            /\ UNCHANGED <<sessionVars, readerVars, detailVars>>
    \/ timer_fires /\ UNCHANGED <<sessionVars, readerVars, detailVars>>
    \/ \E u \in Users : authenticate(u)
            /\ UNCHANGED <<sessionVars, readerVars, detailVars>>
    \/ \E c \in LiveConns : \E tok \in Tokens \cup {NoToken, BadToken} :
            websocket_connect(c, tok)
            /\ UNCHANGED <<sessionVars, readerVars, detailVars>>
    \/ \E c \in LiveConns : \E msg \in SetupMessages : websocket_setup(c, msg)
            /\ UNCHANGED <<sessionVars, readerVars, detailVars>>
    \/ \E c \in LiveConns : client_disconnect(c)
            /\ UNCHANGED <<sessionVars, readerVars, detailVars>>
    \/ \E c \in LiveConns : receive_from_client_disconnect(c)
            /\ UNCHANGED <<sessionVars, readerVars, detailVars>>
    \/ \E c \in LiveConns : run_session_send_fails(c)
            /\ UNCHANGED <<sessionVars, readerVars, detailVars>>
    \/ \E c \in LiveConns : run_session_stream_end(c)
            /\ UNCHANGED <<sessionVars, readerVars, detailVars>>
    \/ \E c \in LiveConns : run_session_error(c)
            /\ UNCHANGED <<sessionVars, readerVars, detailVars>>
    \/ \E c \in LiveConns : wait_for_timeout(c)
            /\ UNCHANGED <<sessionVars, readerVars, detailVars>>
    \/ \E c \in LiveConns : timeout_close(c)
            /\ UNCHANGED <<sessionVars, readerVars, detailVars>>
    \/ \E c \in LiveConns : finally_close(c)
            /\ UNCHANGED <<sessionVars, readerVars, detailVars>>

\* Timers fire and the handler's own steps are scheduled; nothing is
\* assumed of the client or of the backend.
LiveFairness ==
    /\ WF_vars(timer_fires /\ UNCHANGED <<sessionVars, readerVars, detailVars>>)
    /\ \A c \in LiveConns :
        /\ WF_vars(wait_for_timeout(c)
                    /\ UNCHANGED <<sessionVars, readerVars, detailVars>>)
        /\ WF_vars(timeout_close(c)
                    /\ UNCHANGED <<sessionVars, readerVars, detailVars>>)
        /\ WF_vars(finally_close(c)
                    /\ UNCHANGED <<sessionVars, readerVars, detailVars>>)

SpecLive == Init /\ [][LiveNext]_vars /\ LiveFairness

\* ------------------------------------------------------------------------
\* The first message of a connection and the messages after it: the handler
\* takes the first message itself, with receive_text(), before it creates
\* the queues and the task that reads from the client.

\* first messages of every kind, with one setup object among them
FirstFrames ==
    {[kind |-> k, setup |-> NoConfig] : k \in SetupFrameKinds}
    \cup {[kind |-> "object_setup", setup |-> NoConfig]}

FirstNext ==
    \/ authenticate("") /\ UNCHANGED <<sessionVars, readerVars, detailVars>>
    \/ \E c \in SessionConns : \E tok \in Tokens :
            websocket_connect(c, tok)
            /\ UNCHANGED <<sessionVars, readerVars, detailVars>>
    \/ \E c \in SessionConns : \E m \in FirstFrames : \E p \in Providers :
            websocket_setup_frame(c, m, p)
            /\ UNCHANGED <<toolVars, audioVars, usageVars, authVars,
                           oauthVars, quotaVars>>
    \/ \E c \in SessionConns :
            start_session_begin(c)
            /\ UNCHANGED <<toolVars, audioVars, usageVars, authVars,
                           oauthVars, quotaVars>>
    \/ \E c \in SessionConns : \E m \in Messages :
            receive_from_client_frame(c, m) /\ UNCHANGED detailVars
    \/ \E c \in SessionConns : send_audio(c) /\ UNCHANGED detailVars
    \/ \E c \in SessionConns : send_video(c) /\ UNCHANGED detailVars
    \/ \E c \in SessionConns : send_text(c) /\ UNCHANGED detailVars

SpecFirst == Init /\ [][FirstNext]_vars

\* ------------------------------------------------------------------------
\* The raw adapter's receive loop, message by message.  A message is a
\* frame of the backend's websocket: text or binary, JSON or not, and for a
\* JSON object its "type" and the field the branch of that type reads.
NotJsonKinds == {"text_not_json", "binary_not_utf8"}
NotObjectKinds == {"json_list", "json_number", "json_string", "json_null"}
UnknownTypeKinds == {"object_no_type", "unknown_type"}
LoggedKinds == {"session.created", "session.updated"}
AudioDeltaKinds == {"audio_delta", "audio_delta_empty",
                    "audio_delta_bad_base64"}
TranscriptKinds == {"input_audio_transcription.completed",
                    "audio_transcript.delta", "audio_transcript.done"}
\* the envelope {"type": "error", "error": ...} by what its "error" is
ErrorObjectKinds == {"error_object", "error_object_no_message",
                     "error_absent"}
ErrorOtherKinds == {"error_string", "error_null"}
RecognizedKinds ==
    AudioDeltaKinds \cup TranscriptKinds \cup LoggedKinds
    \cup {"response.done", "speech_started"}
    \cup ErrorObjectKinds \cup ErrorOtherKinds
RawMessages ==
    NotJsonKinds \cup NotObjectKinds \cup UnknownTypeKinds
    \cup RecognizedKinds

\* one pass of the loop body: the effects of the branch taken, and whether
\* an exception left the inner try statement, whose one handler is for
\* json.JSONDecodeError
qwen_raw_message(raw, connected) ==
    CASE raw = "text_not_json" ->           \* JSONDecodeError: a warning
            [effects |-> <<>>, raised |-> FALSE]
      [] raw = "binary_not_utf8" ->         \* json.loads: UnicodeDecodeError
            [effects |-> <<>>, raised |-> TRUE]
      [] raw \in NotObjectKinds ->          \* event.get: AttributeError
            [effects |-> <<>>, raised |-> TRUE]
      [] raw \in UnknownTypeKinds \cup LoggedKinds ->
            [effects |-> <<>>, raised |-> FALSE]
      [] raw = "audio_delta" ->             \* the send to a gone client raises
            [effects |-> <<AudioOut>>, raised |-> ~connected]
      [] raw = "audio_delta_empty" ->
            [effects |-> <<>>, raised |-> FALSE]
      [] raw = "audio_delta_bad_base64" ->  \* b64decode: binascii.Error
            [effects |-> <<>>, raised |-> TRUE]
      [] raw \in TranscriptKinds ->
            [effects |-> <<Put("transcription")>>, raised |-> FALSE]
      [] raw = "response.done" ->
            [effects |-> <<Put("turnComplete")>>, raised |-> FALSE]
      [] raw = "speech_started" ->
            [effects |-> qwen_interrupted, raised |-> FALSE]
      [] raw \in ErrorObjectKinds ->        \* message, or "Unknown error"
            [effects |-> <<Put("error")>>, raised |-> FALSE]
      [] raw \in ErrorOtherKinds ->         \* .get("message"): AttributeError
            [effects |-> <<>>, raised |-> TRUE]

\* async for raw_message in websocket, one message
qwen_receive_loop(c, raw) ==
    /\ provider[c] = "qwen"
    /\ tasks[c]["receive_loop"] = "running"
    /\ conn[c] = "open"
    /\ message_count[c] < MaxMessages
    /\ Len(event_queue[c]) < MaxQueue
    /\ LET out == qwen_raw_message(raw, client[c] = "connected")
           es == out.effects
                 \o (IF out.raised THEN receive_loop_except ELSE <<>>)
       IN  /\ message_count' = [message_count EXCEPT ![c] = @ + 1]
           /\ effects' = [effects EXCEPT ![c] = es]
           /\ event_queue' = [event_queue EXCEPT ![c] = @ \o Puts(es)]
           /\ sentinels' = [sentinels EXCEPT ![c] = @ + CountSentinels(Puts(es))]
           /\ tasks' = [tasks EXCEPT ![c]["receive_loop"] =
                    IF out.raised THEN "ended" ELSE @]
    /\ UNCHANGED <<baseVars, provider, tool_mapping, gen, conn, cur_event,
                   client_got, limit_warning_sent, warnings, finally_runs,
                   escaped, readerVars>>

RawNext ==
    \/ authenticate("") /\ UNCHANGED <<sessionVars, readerVars, detailVars>>
    \/ \E c \in SessionConns : \E tok \in Tokens :
            websocket_connect(c, tok)
            /\ UNCHANGED <<sessionVars, readerVars, detailVars>>
    \/ \E c \in SessionConns :
            session_setup(c, "setup", "qwen", {}) /\ UNCHANGED detailVars
    \/ \E c \in SessionConns : start_session_connect(c) /\ UNCHANGED detailVars
    \/ \E c \in SessionConns : \E raw \in RawMessages :
            qwen_receive_loop(c, raw) /\ UNCHANGED detailVars
    \/ \E c \in SessionConns : consumer_get(c) /\ UNCHANGED detailVars
    \/ \E c \in SessionConns : run_session_forward(c) /\ UNCHANGED detailVars
    \/ \E c \in SessionConns :
            client_disconnect(c) /\ UNCHANGED <<sessionVars, readerVars>>
            /\ UNCHANGED detailVars

SpecRaw == Init /\ [][RawNext]_vars

\* ================================================================== claims
\* what a read of the user's accumulator for the day of t returns
Accumulated(d, u, t) ==
    LET k == _get_usage_key(u, t)
    IN  IF k \in DOMAIN d /\ ~(d[k].expires_at # None /\ d[k].expires_at < t)
        THEN d[k].value ELSE 0

\* all per-user accumulators of store d, as read at time t
Accumulators(d, t) == [u \in TrackedUsers |-> Accumulated(d, u, t)]

\* the connection got past the token check
Accepted(c) == pc[c] \notin {"idle", "rejected"}

\* the state part of C1
C1_SingleUseState ==
    \A tok \in Tokens :
        LET got == {c \in Conns : token[c] = tok /\ Accepted(c)}
        IN  /\ Cardinality(got) <= 1
            /\ \A c \in got : tok \notin DOMAIN valid_tokens /\ tok \in minted
            /\ tok \in DOMAIN valid_tokens => \A c \in Conns : token[c] # tok

\* the step part of C1: the step in which a connection presents its token
C1_FirstConsumeStep ==
    \A c \in Conns :
        (pc[c] = "idle" /\ pc'[c] # "idle") =>
            /\ token'[c] \in DOMAIN valid_tokens =>
                    /\ pc'[c] = "awaiting_setup"
                    /\ user_id'[c] = valid_tokens[token'[c]].user_id
                    /\ token'[c] \notin DOMAIN valid_tokens'
            /\ pc'[c] = "awaiting_setup" =>
                    \A c2 \in Conns \ {c} : token[c2] # token'[c]

C2_ExpiredTokenStep ==
    \A c \in Conns :
        (pc[c] = "idle" /\ pc'[c] = "awaiting_setup") =>
            now - valid_tokens[token'[c]].timestamp <= TOKEN_EXPIRY_SECONDS

\* C2: no connection is accepted with a token that is older than
\* TOKEN_EXPIRY_SECONDS when it is presented: consume returns nothing for
\* it and the connection is rejected.
C2_ExpiredTokenRejected == [][C2_ExpiredTokenStep]_vars

\* the state part of C3
C3_RejectedState ==
    \A c \in Conns :
        pc[c] = "rejected" =>
            /\ close_code[c] = 4003
            /\ receive_task[c] = "none"
            /\ adapter[c] = "none"
            /\ end_calls[c] = 0
            /\ _get_session_key(c) \notin DOMAIN data

\* the step part of C3: presenting no token or a token that is not stored
C3_RejectStep ==
    \A c \in Conns :
        (pc[c] = "idle" /\ pc'[c] # "idle"
            /\ (token'[c] = NoToken \/ token'[c] \notin DOMAIN valid_tokens)) =>
                /\ pc'[c] = "rejected"
                /\ close_code'[c] = 4003
                /\ data' = data
                /\ valid_tokens' = valid_tokens

\* C3: a connection with no token, an unknown token or an already consumed
\* token is closed with 4003 in the step that accepts it; that step writes
\* nothing to the storage or the token store, and the connection never gets
\* a reader task, a provider session, a start marker or a usage record.
C3_UnauthorizedNoSession == [](C3_RejectedState) /\ [][C3_RejectStep]_vars

\* C3 witness: a connection without a token or with an unknown token was
\* turned away while the storage holds records of another session.
C3_Witness ==
    \E c \in Conns :
        /\ pc[c] = "rejected"
        /\ token[c] \in {NoToken, BadToken}
        /\ DOMAIN data # {}

\* the state part of C4
C4_TimeLimitState ==
    \A c \in Conns :
        /\ pc[c] = "active" =>
                now - session_start[c] <= effective_timeout[c] + SchedTick
        /\ pc[c] = "timeout_close" => adapter[c] = "cancelled"
        /\ (pc[c] = "finally_close" /\ cause[c] = "timeout") =>
                /\ adapter[c] = "cancelled"
                /\ client[c] = "connected" => close_code[c] = 1000

\* the step part of C4: the timer ends the session
C4_TimeoutStep ==
    \A c \in Conns :
        (pc[c] = "active" /\ pc'[c] = "timeout_close") =>
            /\ now >= session_start[c] + effective_timeout[c]
            /\ adapter[c] = "running"
            /\ adapter'[c] = "cancelled"

EffectiveDuration(d, u, t) ==
    IF u # ""
    THEN Min(SESSION_TIME_LIMIT, Max(0, DAILY_USER_LIMIT - Accumulated(d, u, t)))
    ELSE SESSION_TIME_LIMIT

\* the steps of a session from entering Active to its finally block
C5_DeadlineStep ==
    \A c \in Conns :
        /\ (pc[c] = "awaiting_setup" /\ pc'[c] = "active") =>
                /\ effective_timeout'[c] = EffectiveDuration(data, user_id[c], now)
                /\ session_start'[c] = now
        /\ (pc[c] \in {"active", "timeout_close"}
                /\ pc'[c] \in {"active", "timeout_close", "finally_close"}) =>
                /\ effective_timeout'[c] = effective_timeout[c]
                /\ session_start'[c] = session_start[c]

\* C5: the deadline is fixed in the step that enters Active, as
\* min(SESSION_TIME_LIMIT, remaining quota) for an identified user and as
\* SESSION_TIME_LIMIT for an anonymous one; no later step of the session
\* changes it, whatever happens to the accumulator.
C5_DeadlineComputedOnce == [][C5_DeadlineStep]_vars

\* C5 witness: a running session of an identified user whose deadline is
\* no longer what the accumulator would give now.
C5_Witness ==
    \E c \in Conns :
        /\ pc[c] = "active"
        /\ user_id[c] # ""
        /\ effective_timeout[c] # EffectiveDuration(data, user_id[c], now)

\* the steps of an end call
C6_EndStep ==
    \A p \in Callers :
        LET sid == tsid'[p]
            others == Callers \ {p}
            sequential == \A q \in others : tsid[q] = sid => tpc[q] = "done"
            ended == \E q \in others :
                        tsid[q] = sid /\ tpc[q] = "done" /\ tret[q] # None
            first == \A q \in others : tsid[q] # sid
        IN  /\ (tpc[p] = "idle" /\ tpc'[p] # "idle" /\ sequential /\ ended) =>
                    /\ tpc'[p] = "done"
                    /\ tret'[p] = None
                    /\ Accumulators(data', now) = Accumulators(data, now)
            /\ (tpc[p] = "idle" /\ tpc'[p] # "idle" /\ first
                    /\ sid \in DOMAIN started
                    /\ now - started[sid].start_time <= SESSION_TTL) =>
                    /\ tpc'[p] = "got"
                    /\ tsession'[p] = started[sid]
            /\ (tpc[p] = "got" /\ tpc'[p] = "deleted") =>
                    Accumulators(data', now) = Accumulators(data, now)
            /\ (tpc[p] = "deleted" /\ tpc'[p] = "done") =>
                    /\ tret'[p] = now - started[sid].start_time
                    /\ tret'[p] >= 0
                    /\ Accumulators(data', now) =
                        [Accumulators(data, now)
                            EXCEPT ![started[sid].user_id] = @ + tret'[p]]

C7_AtMostOneEnd ==
    \A sid \in Sessions :
        /\ incrs[sid] <= 1
        /\ Cardinality({p \in Callers :
                tsid[p] = sid /\ tpc[p] = "done" /\ tret[p] # None}) <= 1

\* the sum of the durations the calls in S returned
RECURSIVE SumRet(_)
SumRet(S) ==
    IF S = {} THEN 0
    ELSE LET p == CHOOSE x \in S : TRUE IN tret[p] + SumRet(S \ {p})

\* C8: no increment is lost. Whatever the interleaving of the end calls, a
\* user's accumulator is the sum of the durations the calls for that
\* user's sessions returned.
C8_NoLostUpdate ==
    \A u \in TrackedUsers :
        Accumulated(data, u, now) =
            SumRet({p \in Callers : /\ tpc[p] = "done"
                                    /\ tret[p] # None
                                    /\ tsession[p].user_id = u})

\* C8 witness: two overlapping end calls for different sessions of one
\* user: one has added its positive duration, the other has read and
\* removed its marker and is about to add its own.
C8_Witness ==
    \E p \in Callers : \E q \in Callers :
        /\ tpc[p] = "done" /\ tret[p] > 0
        /\ tpc[q] = "deleted"
        /\ tsid[p] # tsid[q]
        /\ tsession[p].user_id = tsession[q].user_id
        /\ now > tsession[q].start_time

\* the steps that touch a connection's usage record
C9_CloseStep ==
    \A c \in Conns :
        /\ (pc[c] \in {"active", "timeout_close"} /\ pc'[c] = "finally_close") =>
                IF user_id[c] # ""
                THEN /\ end_calls'[c] = 1
                     /\ Accumulated(data', user_id[c], now) =
                            Accumulated(data, user_id[c], now)
                                + (now - tracked_since[c])
                ELSE /\ end_calls'[c] = 0
                     /\ data' = data
        /\ end_calls'[c] # end_calls[c] =>
                (pc[c] \in {"active", "timeout_close"} /\ pc'[c] = "finally_close")

\* C9: the step that closes a session calls end exactly once for an
\* identified user and adds the time since the connection was accepted to
\* that user's accumulator; for an anonymous session it writes nothing. No
\* other step calls end, and an anonymous session has no start marker.
C9_UsageReportedOnClose == [][C9_CloseStep]_vars

\* the steps of an active session whose reader has seen the client leave
C10_DisconnectStep ==
    \A c \in Conns :
        (pc[c] = "active" /\ client[c] = "disconnected"
            /\ receive_task[c] = "ended") =>
            /\ pc'[c] # "timeout_close"
            /\ ~(cause'[c] = "error" /\ adapter'[c] = "cancelled")

\* C10: once the reader task of an active session has seen the client
\* disconnect, the session closes without the timer expiring and without a
\* send of a backend message failing first.
C10_DisconnectCloses == [][C10_DisconnectStep]_vars

\* the state part of C11
C11_ClosingState ==
    \A c \in Conns :
        /\ finally_runs[c] <= 1
        /\ pc[c] \in {"idle", "rejected", "awaiting_setup", "active",
                      "timeout_close"} => finally_runs[c] = 0
        /\ pc[c] \in {"finally_close", "closed"} => finally_runs[c] = 1
        /\ pc[c] = "finally_close" =>
                /\ cause[c] \in {"timeout", "stream_end", "error"}
                /\ receive_task[c] \in {"cancelled", "ended"}

\* the step part of C11: the close that follows the finally block
C11_CloseStep ==
    \A c \in Conns :
        (pc[c] = "finally_close" /\ pc'[c] = "closed") =>
            escaped'[c] = escaped[c]

Range(q) == {q[i] : i \in 1..Len(q)}

\* run_session is over for the connection
StreamOver(c) == pc[c] \in {"timeout_close", "finally_close", "closed"}

\* C12: once the event stream of start_session has ended, by the sentinel,
\* by an exception while the relay forwards an event or by the timer's
\* cancellation, none of the tasks the adapter created is still running and
\* the provider connection is no longer open; that holds in particular
\* when the handler has returned.
C12_AdapterTornDown ==
    \A c \in Conns :
        StreamOver(c) =>
            /\ \A t \in TaskNames : tasks[c][t] # "running"
            /\ conn[c] # "open"

\* the state part of C13
C13_SentinelState ==
    \A c \in Conns :
        /\ tasks[c]["receive_loop"] \in {"none", "running"} => sentinels[c] = 0
        /\ tasks[c]["receive_loop"] \in {"ended", "cancelled"} => sentinels[c] = 1
        /\ \A i \in 1..Len(event_queue[c]) :
                event_queue[c][i] = Sentinel => i = Len(event_queue[c])
        /\ \A i \in 1..Len(effects[c]) :
                effects[c][i] = Put(Sentinel) => i = Len(effects[c])

\* the step part of C13
C13_SentinelStep ==
    \A c \in Conns :
        /\ (sentinels[c] = 1 /\ sentinels'[c] = 1) =>
                Len(event_queue'[c]) <= Len(event_queue[c])
        /\ (gen[c] = "get" /\ pc[c] = "active" /\ event_queue[c] # <<>>
                /\ Head(event_queue[c]) = Sentinel
                /\ event_queue'[c] # event_queue[c]) =>
                /\ gen'[c] = "closed"
                /\ cur_event'[c] = "none"

\* C13: while the receive loop runs it has enqueued no sentinel; once it
\* has ended, by the backend closing, by an exception or by cancellation,
\* it has enqueued exactly one, nothing is enqueued after it, and the
\* consumer loop that takes it from the queue ends the generator instead
\* of yielding it.
C13_OneSentinel == [](C13_SentinelState) /\ [][C13_SentinelStep]_vars

\* C13 witness: the receive loop was cancelled by the timer while events
\* were waiting; the queue ends with its one sentinel.
C13_Witness ==
    \E c \in Conns :
        /\ tasks[c]["receive_loop"] = "cancelled"
        /\ sentinels[c] = 1
        /\ Len(event_queue[c]) >= 2
        /\ event_queue[c][Len(event_queue[c])] = Sentinel

\* the events that tell the client of an interruption
InterruptedEvents == {Put("serverContent.interrupted"), Put("interrupted")}

\* C14: in what the receive loop does for one backend message, every
\* Interrupted event it puts on the event queue comes after the call of
\* the interrupt callback.
C14_CallbackBeforeInterrupted ==
    \A c \in Conns :
        \A i \in 1..Len(effects[c]) :
            effects[c][i] \in InterruptedEvents =>
                \E j \in 1..(i - 1) : effects[c][j] = Callback

\* the events that tell the client of a tool call
ToolCallEvents == {"toolCall", "tool_call"}

Position(es, e) ==
    IF e \in Range(es)
    THEN CHOOSE i \in 1..Len(es) :
            es[i] = e /\ \A j \in 1..(i - 1) : es[j] # e
    ELSE 0

C19_ErrorEventOnBackendFailure ==
    \A c \in Conns :
        (pc[c] = "finally_close" /\ client[c] = "connected"
            /\ (adapter[c] = "failed" \/ conn[c] = "lost")) =>
                "error" \in client_got[c]

\* the steps of a session that the timer ends, and the step into the
\* finally block of any session
C20_TimeoutStep ==
    \A c \in Conns :
        /\ (pc[c] = "active" /\ pc'[c] = "timeout_close") =>
                /\ client_got'[c] = client_got[c]
                /\ "error" \notin Range(event_queue'[c]) \ Range(event_queue[c])
        /\ (pc[c] = "timeout_close" /\ pc'[c] = "finally_close") =>
                /\ client_got'[c] = client_got[c]
                /\ cause'[c] = "timeout"
                /\ client[c] = "connected" => close_code'[c] = CLOSE_NORMAL
        /\ (pc[c] = "finally_close" /\ cause[c] = "timeout") =>
                client_got'[c] \subseteq client_got[c]
        /\ (pc[c] # "finally_close" /\ pc'[c] = "finally_close") =>
                /\ receive_task'[c] \in {"cancelled", "ended"}
                /\ finally_runs'[c] = finally_runs[c] + 1
                /\ end_calls'[c] = end_calls[c]
                        + (IF user_id[c] # "" THEN 1 ELSE 0)

\* C20: the timer's expiry sends no error event to the client and puts none
\* on the event queue, the handler closes a connected client with code
\* 1000, and the finally block then runs as for every other end: the
\* reader is cancelled and end is called once for an identified user.
C20_TimeoutNotAnError == [][C20_TimeoutStep]_vars

\* C20 witness: an identified user's session ended by the timer: closed
\* with 1000, reader cancelled, end called once, no error event received.
C20_Witness ==
    \E c \in Conns :
        /\ pc[c] = "finally_close"
        /\ cause[c] = "timeout"
        /\ user_id[c] # ""
        /\ client[c] = "connected"
        /\ close_code[c] = CLOSE_NORMAL
        /\ receive_task[c] = "cancelled"
        /\ end_calls[c] = 1
        /\ tasks[c]["receive_loop"] = "cancelled"
        /\ "error" \notin client_got[c]

\* C16: in a session on the SDK adapter no warning has been emitted while
\* fewer than 900 messages have come in, and from the 900th message on
\* exactly one has, carrying count 900 and limit 1000; at most one is ever
\* waiting in the event queue.
C16_OneLimitWarning ==
    \A c \in Conns :
        provider[c] = "gemini" =>
            /\ message_count[c] < MESSAGE_LIMIT_WARNING =>
                    /\ warnings[c] = <<>>
                    /\ ~limit_warning_sent[c]
                    /\ "messageLimitWarning" \notin
                            Range(event_queue[c]) \cup client_got[c]
            /\ message_count[c] >= MESSAGE_LIMIT_WARNING =>
                    /\ warnings[c] = << <<MESSAGE_LIMIT_WARNING, MESSAGE_LIMIT>> >>
                    /\ limit_warning_sent[c]
            /\ Cardinality({i \in 1..Len(event_queue[c]) :
                    event_queue[c][i] = "messageLimitWarning"}) <= 1

\* C16 witness: the backend has sent 1000 messages and the client has
\* received the one warning.
C16_Witness ==
    \E c \in Conns :
        /\ message_count[c] = MESSAGE_LIMIT
        /\ warnings[c] = << <<MESSAGE_LIMIT_WARNING, MESSAGE_LIMIT>> >>
        /\ "messageLimitWarning" \in client_got[c]

\* the three inbound queues of a connection
Queues(c) == <<audio_input_queue[c], video_input_queue[c], text_input_queue[c]>>

\* the reader has just taken a message
TookMessage(c) == frames'[c] = frames[c] + 1

\* the step in which the reader takes an oversized frame
C17_OversizedStep ==
    \A c \in Conns :
        (TookMessage(c) /\ last_message'[c].bytes > MAX_MESSAGE_SIZE) =>
            /\ audio_input_queue'[c] = audio_input_queue[c]
            /\ video_input_queue'[c] = video_input_queue[c]
            /\ text_input_queue'[c] = text_input_queue[c]
            /\ receive_task'[c] = "running"
            /\ client'[c] = "connected"
            /\ pc'[c] = pc[c]

\* C17: a frame of more than MAX_MESSAGE_SIZE bytes, binary or text, goes
\* on no queue and leaves the connection open and the reader running, so
\* that the next frame is taken.
C17_OversizedDropped == [][C17_OversizedStep]_vars

\* the step in which the reader takes a frame within the size limit
C18_ClassifyStep ==
    \A c \in Conns :
        LET m == last_message'[c]
        IN  (TookMessage(c) /\ m.bytes <= MAX_MESSAGE_SIZE /\ m.bytes # 0) =>
                /\ receive_task'[c] = "running"
                /\ m.kind = "bytes" =>
                        /\ audio_input_queue'[c] = Append(audio_input_queue[c], m)
                        /\ video_input_queue'[c] = video_input_queue[c]
                        /\ text_input_queue'[c] = text_input_queue[c]
                /\ (m.kind = "text" /\ m.class = "image_ok") =>
                        /\ video_input_queue'[c] =
                                Append(video_input_queue[c], b64decode(m))
                        /\ audio_input_queue'[c] = audio_input_queue[c]
                        /\ text_input_queue'[c] = text_input_queue[c]
                /\ (m.kind = "text" /\ m.class \in ImageClasses \ {"image_ok"}) =>
                        /\ audio_input_queue'[c] = audio_input_queue[c]
                        /\ video_input_queue'[c] = video_input_queue[c]
                        /\ text_input_queue'[c] = text_input_queue[c]
                /\ (m.kind = "text" /\ m.class \notin ImageClasses) =>
                        /\ text_input_queue'[c] = Append(text_input_queue[c], m)
                        /\ audio_input_queue'[c] = audio_input_queue[c]
                        /\ video_input_queue'[c] = video_input_queue[c]

\* C18: a non-empty frame within the size limit is handled in exactly one
\* way and the reader goes on to the next frame: binary to the audio queue
\* only; an image message decoded to the video queue only, or to no queue
\* when its data is missing or cannot be decoded; other text to the text
\* queue only. An image message never goes to the text queue.
C18_OneWayPerFrame == [][C18_ClassifyStep]_vars

\* the function responses the backend is to receive for the calls fcs
ExpectedResponses(tm, fcs) ==
    LET reg == SelectSeq(fcs, LAMBDA fc : fc.name \in tm)
    IN  [k \in 1..Len(reg) |->
            [name |-> reg[k].name,
             result |-> IF reg[k].raises THEN "Error" ELSE "result"]]

\* the step in which the receive loop takes a tool-call message
C21_ToolCallStep ==
    \A c \in Conns :
        message_count'[c] = message_count[c] + 1 =>
            LET fcs == last_calls'[c]
                tm == tool_mapping[c]
                es == effects'[c]
            IN  /\ tool_results'[c] =
                        tool_results[c] \o ExpectedResponses(tm, fcs)
                /\ Cardinality({i \in 1..Len(es) : es[i][1] = "invoke"})
                        = Len(ExpectedResponses(tm, fcs))
                /\ Cardinality({i \in 1..Len(es) :
                                    es[i][1] = "send_tool_response"})
                        = Len(ExpectedResponses(tm, fcs))
                /\ (\E i \in 1..Len(fcs) : fcs[i].name \notin tm) =>
                        Put("toolCall") \in Range(es)
                /\ tasks'[c]["receive_loop"] = "running"
                /\ sentinels'[c] = sentinels[c]
                /\ Put("error") \notin Range(es)
                /\ Put(Sentinel) \notin Range(es)

\* C21: when the handler of a registered tool raises, that call's result
\* is the error string and is sent back to the backend with the results of
\* the other calls; every registered call of the message is invoked, the
\* unregistered ones are forwarded, the receive loop keeps running, and
\* neither an error event nor the sentinel is enqueued.
C21_ToolErrorCaught == [][C21_ToolCallStep]_vars

\* C21 witness: a message of two registered calls whose first handler
\* raised; the backend has the error string and then the second result,
\* and the receive loop runs.
C21_Witness ==
    \E c \in Conns :
        /\ Len(last_calls[c]) = 2
        /\ last_calls[c][1].raises
        /\ ~last_calls[c][2].raises
        /\ tool_results[c] = <<[name |-> "get_time", result |-> "Error"],
                               [name |-> "get_time", result |-> "result"]>>
        /\ tasks[c]["receive_loop"] = "running"
        /\ sentinels[c] = 0

\* the first message has no usable setup field
Malformed(m) == m.kind \in SetupFrameKinds

\* the steps of a connection whose first message is missing the setup
\* field or is malformed: taking the message, and starting the adapter
C22_SetupStep ==
    \A c \in Conns :
        /\ (pc[c] = "awaiting_setup" /\ pc'[c] # "awaiting_setup"
                /\ Malformed(first_message'[c])) =>
                /\ pc'[c] = "active"
                /\ setup_config'[c] = NoConfig
                /\ close_code'[c] = 0
                /\ cause'[c] = "none"
                /\ receive_task'[c] = "running"
                /\ gen'[c] = "connecting"
        /\ (Malformed(first_message[c]) /\ gen[c] = "connecting"
                /\ native_config'[c] # native_config[c]) =>
                /\ ~native_config'[c].raised
                /\ native_config'[c].keys \in
                        {{"response_modalities", "session_resumption"},
                         {"modalities", "turn_detection",
                          "input_audio_transcription"}}
                /\ gen'[c] = "get"
                /\ pc'[c] = "active"
                /\ close_code'[c] = 0

\* C22: a first message that is not text, not JSON, not an object or has no
\* setup field leaves setup_config empty and takes the handler to Active
\* with the connection open; the adapter then starts with its default
\* configuration, and the session does not fail for that reason.
C22_MalformedSetupNotFatal == [][C22_SetupStep]_vars

\* C22 witness: the first message was a JSON number; the session is active
\* on the adapter's defaults with its tasks running.
C22_Witness ==
    \E c \in Conns :
        /\ first_message[c].kind = "json_number"
        /\ setup_config[c] = NoConfig
        /\ pc[c] = "active"
        /\ gen[c] = "get"
        /\ ~native_config[c].raised
        /\ native_config[c] # NotTranslated
        /\ tasks[c]["receive_loop"] = "running"
        /\ close_code[c] = 0

\* C23: the translation of the client's setup config raises for no config,
\* whichever fields are absent, unknown or of the wrong shape, and the
\* session is not ended by it.
C23_ConfigNeverFatal ==
    \A c \in Conns : ~native_config[c].raised

IsPrefix(s, t) ==
    /\ Len(s) <= Len(t)
    /\ \A i \in 1..Len(s) : s[i] = t[i]

\* s is the sequence t without its first Len(t) - Len(s) items
IsSuffix(s, t) ==
    /\ Len(s) <= Len(t)
    /\ \A i \in 1..Len(s) : s[i] = t[Len(t) - Len(s) + i]

\* C25: on each channel what the backend has got is the beginning of what
\* the reader enqueued, in that order and nothing twice, and what waits in
\* the queue is the end of it; while the sender has not failed the two
\* together are everything that was enqueued.
C25_FifoPerChannel ==
    \A c \in Conns : \A ch \in Channels :
        LET q == InputQueue(c, ch)
            e == enqueued[c][ch]
            g == backend_got[c][ch]
        IN  /\ IsPrefix(g, e)
            /\ IsSuffix(q, e)
            /\ Len(g) + Len(q) <= Len(e)
            /\ tasks[c][SenderTask(ch)] # "ended" => g \o q = e

\* C25 witness: the backend has got two different text items, and an audio
\* item was enqueued before a text item that was sent first.
C25_Witness ==
    \E c \in Conns :
        /\ Len(backend_got[c]["text"]) = 2
        /\ backend_got[c]["text"][1] # backend_got[c]["text"][2]
        /\ backend_got[c]["text"] = enqueued[c]["text"]

\* the state part of C26
C26_AudioState ==
    \A c \in Conns :
        /\ IsPrefix(client_audio[c], audio_emitted[c])
        /\ \A i, j \in 1..Len(client_audio[c]) :
                i < j => client_audio[c][i] < client_audio[c][j]
        /\ tasks[c]["receive_loop"] = "running" =>
                client_audio[c] \o audio_pending[c] = audio_emitted[c]

\* the step part of C26: the loop takes the next message only when every
\* chunk of the last one has been handed to the sink and the sink is done
C26_AudioStep ==
    \A c \in Conns :
        audio_emitted'[c] # audio_emitted[c] =>
            /\ audio_pending[c] = <<>>
            /\ client_audio[c] = audio_emitted[c]
                    \/ tasks[c]["receive_loop"] # "running"

\* C26: the binary frames the client has received are the chunks the
\* backend emitted, from the first on, in that order and none twice; the
\* receive loop handles a chunk only after the sink has finished with the
\* one before.
C26_AudioInOrder == [](C26_AudioState) /\ [][C26_AudioStep]_vars

\* C26 witness: the client has received the chunks of two messages, three
\* chunks or more, in the backend's order.
C26_Witness ==
    \E c \in Conns :
        /\ Len(client_audio[c]) >= 3
        /\ client_audio[c] = audio_emitted[c]
        /\ message_count[c] = 2

\* the accumulator keys of store d, and what a read of key k returns at t
UsageKeys(d) == {k \in DOMAIN d : k[1] = "usage:"}
AccAt(d, k, t) ==
    IF k \in DOMAIN d /\ ~(d[k].expires_at # None /\ d[k].expires_at < t)
    THEN d[k].value ELSE 0
\* the step leaves every accumulator as it was, except those of user u
OnlyUserChanged(u) ==
    \A k \in UsageKeys(data) \cup UsageKeys(data') :
        k[3] # u => AccAt(data', k, now') = AccAt(data, k, now)
NoAccumulatorChanged ==
    \A k \in UsageKeys(data) \cup UsageKeys(data') :
        AccAt(data', k, now') = AccAt(data, k, now)

C27_Step ==
    /\ \A u \in TrackedUsers : tracker_remaining(u) => NoAccumulatorChanged
    /\ \A u \in TrackedUsers \cup {""} :
            tracker_can_start(u) => NoAccumulatorChanged
    /\ \A sid \in Sessions : \A u \in TrackedUsers :
            tracker_start(sid, u) => NoAccumulatorChanged
    /\ \A p \in Callers :
            /\ \A sid \in Sessions :
                    end_session_get(p, sid) => NoAccumulatorChanged
            /\ end_session_delete(p) => NoAccumulatorChanged
            /\ end_session_incrby(p) =>
                    OnlyUserChanged(started[tsid[p]].user_id)

\* C27: remaining, can_start and start leave every per-(user, day)
\* accumulator as it was, and an end call changes no accumulator but the
\* one of the user recorded in the start marker of its session.
C27_OnlyEndAccumulates == [][C27_Step]_vars

\* C27 witness: one user's session was ended and has added a positive
\* duration, the other user has a started session, and a read has run.
C27_Witness ==
    /\ \E p \in Callers :
            /\ tpc[p] = "done" /\ tret[p] # None /\ tret[p] > 0
            /\ \E sid \in DOMAIN started :
                    started[sid].user_id # tsession[p].user_id
    /\ last_read.op = "remaining"
    /\ last_read.used > 0

\* C28: remaining(user) is DAILY_USER_LIMIT minus the user's accumulated
\* usage of the current day, or zero when that is negative; it is never
\* below zero and never above DAILY_USER_LIMIT.
C28_RemainingClamped ==
    /\ \A u \in TrackedUsers :
        LET used == Accumulated(data, u, now)
            ret == get_user_remaining_today(data, u, now)
        IN  /\ ret = (IF DAILY_USER_LIMIT - used < 0 THEN 0
                      ELSE DAILY_USER_LIMIT - used)
            /\ ret >= 0
            /\ ret <= DAILY_USER_LIMIT
    /\ last_read.op = "remaining" =>
        /\ last_read.ret >= 0
        /\ last_read.ret <= DAILY_USER_LIMIT
        /\ last_read.used <= DAILY_USER_LIMIT =>
                last_read.ret = DAILY_USER_LIMIT - last_read.used
        /\ last_read.used > DAILY_USER_LIMIT => last_read.ret = 0

\* C28 witness: remaining was read for a user whose accumulated usage is
\* above the daily limit, where the clamp decides the result.
C28_Witness ==
    /\ last_read.op = "remaining"
    /\ last_read.used > DAILY_USER_LIMIT
    /\ last_read.ret = 0
    /\ Accumulated(data, last_read.user, now) = last_read.used

\* the start marker of sid is older than SESSION_TTL
MarkerExpired(sid) ==
    /\ sid \in DOMAIN started
    /\ now > started[sid].start_time + SESSION_TTL
\* some end call found the marker of sid
MarkerTaken(sid) ==
    \E p \in Callers :
        /\ tsid[p] = sid
        /\ tpc[p] \in {"got", "deleted"} \/ (tpc[p] = "done" /\ tret[p] # None)

C29_State ==
    \A sid \in Sessions :
        MarkerExpired(sid) =>
            /\ ~end_session_found(data, sid, now)
            /\ end_session_ret(data, sid, now) = None
            /\ ~MarkerTaken(sid) => incrs[sid] = 0

C29_Step ==
    \A p \in Callers : \A sid \in Sessions :
        (MarkerExpired(sid) /\ end_session_get(p, sid)) =>
            /\ tpc'[p] = "done"
            /\ tret'[p] = None
            /\ NoAccumulatorChanged

\* C29: once SESSION_TTL has passed since start(session_id, user) and no
\* end call has taken the marker, the marker is gone: end(session_id)
\* returns nothing from then on and the session adds nothing to any
\* accumulator.
C29_MarkerExpires == [](C29_State) /\ [][C29_Step]_vars

\* C29 witness: a session was started, more than SESSION_TTL has passed, an
\* end call for it has returned nothing, the marker is no longer stored
\* and nothing was added for the session.
C29_Witness ==
    \E p \in Callers : \E sid \in Sessions :
        /\ MarkerExpired(sid)
        /\ tsid[p] = sid /\ tpc[p] = "done" /\ tret[p] = None
        /\ _get_session_key(sid) \notin DOMAIN data
        /\ incrs[sid] = 0
        /\ \A u \in TrackedUsers : Accumulated(data, u, now) = 0

\* the empty JSON body: no JWT, no signed parameters, no password, no
\* reCAPTCHA token
EmptyBody == [jwt_token |-> "none", signed_params |-> "none",
              password |-> "none", recaptcha_token |-> "none"]

\* C30: in dev mode a request with the empty JSON body gets status 200, a
\* newly minted session_token and a session_time_limit.
C30_DevAuthSucceeds ==
    (last_auth # NoAuth /\ last_auth.env.dev_mode /\ last_auth.req = EmptyBody)
        => /\ last_auth.status = HTTP_OK
           /\ last_auth.session_token \in minted
           /\ last_auth.session_time_limit \in 0..SESSION_TIME_LIMIT

\* the age of entry k of the token store at the time of the step
TokenAge(k) == now - valid_tokens[k].timestamp

\* the steps that run cleanup_tokens: every mint
C31_CleanupStep ==
    minted' # minted =>
        \A k \in DOMAIN valid_tokens :
            /\ TokenAge(k) > TOKEN_EXPIRY_SECONDS =>
                    k \notin DOMAIN valid_tokens'
            /\ TokenAge(k) < TOKEN_EXPIRY_SECONDS =>
                    /\ k \in DOMAIN valid_tokens'
                    /\ valid_tokens'[k] = valid_tokens[k]
                    /\ consume_token(valid_tokens', k) = valid_tokens[k]

C32_StateAcceptedOnce ==
    \A st \in OAuthStates :
        Cardinality({p \in Callers :
            /\ oauth_cb[p].state = st
            /\ oauth_cb[p].result = "state accepted"})
        <= 1

\* the relay state of a connection: AwaitingToken 0, AwaitingSetup 1,
\* Active 2, Closing 3, Closed 4
RelayState(p) ==
    CASE p = "idle" -> 0
      [] p = "awaiting_setup" -> 1
      [] p = "active" -> 2
      [] p \in {"timeout_close", "finally_close"} -> 3
      [] p \in {"closed", "rejected"} -> 4

\* the token of connection c was minted and has been taken from the store
TokenConsumed(c) == token[c] \in minted /\ token[c] \notin DOMAIN valid_tokens

C33_Step ==
    \A c \in Conns :
        /\ RelayState(pc'[c]) >= RelayState(pc[c])
        \* one state at a time, except the refusal of a bad token
        /\ RelayState(pc'[c]) <= RelayState(pc[c]) + 1 \/ pc'[c] = "rejected"
        \* what starts a session starts in a connection past the token check
        /\ (tracked_since'[c] # tracked_since[c] /\ tracked_since'[c] # None) =>
                RelayState(pc'[c]) = 1 /\ TokenConsumed(c)'
        /\ (receive_task'[c] = "running" /\ receive_task[c] # "running") =>
                RelayState(pc[c]) = 1 /\ TokenConsumed(c)
        /\ (adapter'[c] = "running" /\ adapter[c] # "running") =>
                RelayState(pc[c]) = 1 /\ RelayState(pc'[c]) = 2

C33_State ==
    \A c \in Conns :
        /\ RelayState(pc[c]) \in 1..3 => TokenConsumed(c)
        /\ _get_session_key(c) \in DOMAIN data =>
                pc[c] \notin {"idle", "rejected"} /\ TokenConsumed(c)
        /\ receive_task[c] # "none" => RelayState(pc[c]) \in 2..3
        /\ adapter[c] # "none" => RelayState(pc[c]) \in 2..3

\* C33: a connection goes through AwaitingToken, AwaitingSetup, Active,
\* Closing, Closed in that order and never back; the start marker, the
\* reader task and the adapter exist only for a connection whose token was
\* consumed, and the adapter starts only when the setup step is over.
C33_RelayOrder == [](C33_State) /\ [][C33_Step]_vars

\* C33 witness: an identified user's connection went all the way to Closed
\* after its session ran into the time limit, and another connection was
\* refused.
C33_Witness ==
    \E c \in Conns : \E c2 \in Conns :
        /\ pc[c] = "closed" /\ user_id[c] # "" /\ end_calls[c] = 1
        /\ close_code[c] = CLOSE_NORMAL
        /\ pc[c2] = "rejected"

\* the step in which the finally block of a session reports its usage
C34_EndStep ==
    \A c \in Conns :
        (pc[c] \in {"active", "timeout_close"} /\ pc'[c] = "finally_close"
            /\ user_id[c] # "") =>
            Accumulated(data', user_id[c], now)
                - Accumulated(data, user_id[c], now)
                    <= effective_timeout[c] + SchedTick

\* C34: what the end of a session adds to its user's accumulator is at most
\* the session's effective duration plus one scheduling tick, however long
\* the client waited before sending its setup message.
C34_BilledWithinDuration == [][C34_EndStep]_vars

\* C35: a user's accumulated usage of the day is never more than
\* DAILY_USER_LIMIT plus the effective duration of one session (at most
\* SESSION_TIME_LIMIT, and one scheduling tick for a late timer), also when
\* the user holds several sessions at the same time.
C35_UsageWithinLimit ==
    Accumulated(data, QuotaUser, now)
        <= DAILY_USER_LIMIT + SESSION_TIME_LIMIT + SchedTick

\* C36: a connection whose token was consumed reaches Closed, whatever the
\* client and the backend do, as long as timers fire and the handler's
\* steps are scheduled.
C36_EventuallyClosed ==
    \A c \in Conns : (pc[c] = "awaiting_setup") ~> (pc[c] = "closed")

\* the Interrupted events among the effects of one backend message
InterruptedPuts(es) ==
    Cardinality({i \in 1..Len(es) : es[i] \in InterruptedEvents})

\* C37: the handling of one backend interruption signal, recognisable by
\* its call of the interrupt callback, puts exactly one Interrupted event
\* on the adapter's event queue, in either adapter.
C37_OneInterruptedEvent ==
    \A c \in Conns :
        (\E i \in 1..Len(effects[c]) : effects[c][i] = Callback) =>
            InterruptedPuts(effects[c]) = 1

\* the messages the reader has put on its three queues so far
EnqueuedCount(c) ==
    Len(enqueued[c]["audio"]) + Len(enqueued[c]["video"])
        + Len(enqueued[c]["text"])

\* C38: the step that takes the first message of a connection puts
\* nothing on the audio, video or text queue, whatever the message is;
\* the reader has classified no message before that step, and what is on
\* the queues is never more than the messages the reader received after it.
C38_Step ==
    \A c \in Conns :
        first_message'[c] # first_message[c] =>
            /\ first_message[c] = NoFrame
            /\ frames[c] = 0
            /\ UNCHANGED <<audio_input_queue, video_input_queue,
                           text_input_queue, enqueued, frames>>
C38_State ==
    \A c \in Conns :
        /\ EnqueuedCount(c) <= frames[c]
        /\ frames[c] > 0 => first_message[c] # NoFrame
C38_FirstMessageConsumed == [](C38_State) /\ [][C38_Step]_vars

\* C38 witness: a first message without a setup object was taken by the
\* setup step, and the reader then queued the two messages after it
C38_Witness ==
    \E c \in Conns :
        /\ first_message[c].kind \in {"object_no_setup", "not_json", "binary"}
        /\ frames[c] = MaxFrames
        /\ EnqueuedCount(c) = MaxFrames

\* the events, None apart, that the effects es put on the event queue
ClientEvents(es) == SelectSeq(Puts(es), LAMBDA ev : ev # Sentinel)
LoopRunning(c) == tasks[c]["receive_loop"] = "running"

\* C39: in the raw adapter's receive loop a message that is not valid
\* JSON, or whose type is not recognized, puts no event on the queue and
\* leaves the loop running; an error envelope puts exactly one error event
\* and leaves the loop running; a message of a recognized type puts at
\* most one event.
C39_Step ==
    \A c \in Conns : \A raw \in RawMessages :
        qwen_receive_loop(c, raw) =>
            /\ raw \in NotJsonKinds \cup UnknownTypeKinds =>
                    /\ ClientEvents(effects'[c]) = <<>>
                    /\ LoopRunning(c)'
            /\ raw \in ErrorObjectKinds \cup ErrorOtherKinds =>
                    /\ ClientEvents(effects'[c]) = <<"error">>
                    /\ LoopRunning(c)'
            /\ raw \in RecognizedKinds =>
                    Len(ClientEvents(effects'[c])) <= 1
C39_RawReceiveLoop == [][C39_Step]_vars

\* C40: a request to /api/auth that identifies a user who has less than
\* 60 seconds of the day left is answered 429 and leaves the token store
\* as it was; for any other identified user the answer's session_time_limit
\* is the lesser of SESSION_TIME_LIMIT and what the user has left, and the
\* token it names is new and stored with that user's id.
C40_Identified(env, req) ==
    /\ api_auth(env, req)
    /\ auth_method(env, req).status = HTTP_OK
    /\ auth_method(env, req).user # ""
C40_Step ==
    \* the answer records the request it answers
    (IF last_auth' = NoAuth THEN FALSE
     ELSE C40_Identified(last_auth'.env, last_auth'.req)) =>
            LET u == auth_method(last_auth'.env, last_auth'.req).user
                remaining == Max(0, DAILY_USER_LIMIT - Accumulated(data, u, now))
            IN  IF remaining < 60
                THEN /\ last_auth'.status = HTTP_TOO_MANY
                     /\ UNCHANGED <<valid_tokens, minted>>
                ELSE /\ last_auth'.status = HTTP_OK
                     /\ last_auth'.session_time_limit =
                            Min(SESSION_TIME_LIMIT, remaining)
                     /\ last_auth'.session_token \notin minted
                     /\ last_auth'.session_token \in DOMAIN valid_tokens'
                     /\ valid_tokens'[last_auth'.session_token].user_id = u
C40_AuthQuota == [][C40_Step]_vars

\* C40 witness: a request of the course user was refused with 429 when the
\* user had 59 seconds left
C40_Witness ==
    /\ last_auth.status = HTTP_TOO_MANY
    /\ auth_method(last_auth.env, last_auth.req).user = CourseUser
    /\ DAILY_USER_LIMIT - Accumulated(data, CourseUser, now) = 59
    /\ minted = {}
====
